---------------------------- MODULE Spec2Model ----------------------------
(***************************************************************************)
(* A model of the isometric scene core: the connector's route computation  *)
(* (IsoConnector._updatePath), the face/anchor model of an entity          *)
(* (IsoEntity.getFaceConnectionPoint) and the coordinate transform         *)
(* (isoToScreen / screenToIso).                                            *)
(*                                                                         *)
(* Numbers.  Isometric coordinates, sizes and lengths are fixed-point      *)
(* integers counting hundredths of a unit: 10 stands for 0.1, 5000 for 50. *)
(* Every size the model draws is even, so that the halves the code takes   *)
(* (w / 2, w * (u - 0.5)) are exact.  A length is a record [n, r] standing *)
(* for n * sqrt(r), so that the Euclidean length of a direct segment is    *)
(* exact too, whether or not it is rational.                               *)
(***************************************************************************)
EXTENDS Integers, Sequences, FiniteSets, TLC

VARIABLES
  \* the scene: the entities a connector can name, by entity-id
  scene,
  \* IsoConnector: its reactive properties
  from, to, route, perpendicularLength,
  \* IsoConnector: its private state
  _fromEntity, _toEntity, _segments, _totalPathLength,
  \* the outcome of the last handler that ran: "ok", or the error it raised
  outcome,
  \* an IsoEntity on its own: its properties, the last call of
  \* getFaceConnectionPoint on it (face and position) and what it returned
  entity, query, point,
  \* utils/isometric: the runtime camera angles (degrees), the input of a round
  \* trip (point, scale, origin) and the last round trip made on it
  runtimeAngles, sample, trip,
  \* calculateZIndex: two boxes (centres and the size they share) and the
  \* z-index last computed for each
  boxes, zIndex,
  \* IsoConnector: the particles property and the particle state
  particles, _particles, _reverseParticles, _particleIdCounter,
  _lastEmitTime, _lastReverseEmitTime, _lastFrameTime, _animationFrameId,
  \* the browser: the handles of the frame callbacks that are pending, the
  \* number of handles requestAnimationFrame has given out, the time (ms), and
  \* the number of connectedCallback's 100 ms timeouts still to fire
  frames, handles, now, connectTimers,
  \* whether the element is connected
  connected,
  \* history: the particles each stream has emitted since the particles
  \* property was last set or the loop last started, and the timestamp of the
  \* first update since then
  emission,
  \* history: the timestamp of the last frame callback of the particle loop
  \* since the loop started, 0 when there has been none
  lastCallback,
  \* the last call of _getPositionAtProgress: its progress and what it returned
  lookup,
  \* the last screen offset computed from an iso offset: by which function,
  \* under which runtime angles, of which offset, and the result
  offset,
  \* IsoConnector: whether the 16 ms timeout of _scheduleUpdate is pending
  _updateTimer,
  \* the last call of _renderTrailParticle: for which particle (its id and
  \* stream) and the trail dots it rendered (progress sampled, position, size,
  \* opacity)
  trail,
  \* PathCalculator: the arguments of a drawing (the two iso points, the
  \* route string, the z offset), how far it has got, the segments
  \* calculateScreenPath returned and the paths generatePath made of them
  drawing

connVars == <<scene, from, to, route, perpendicularLength,
              _fromEntity, _toEntity, _segments, _totalPathLength, outcome>>

anchorVars == <<entity, query, point>>

transformVars == <<runtimeAngles, sample, trip>>

zVars == <<boxes, zIndex>>

particleVars == <<particles, _particles, _reverseParticles, _particleIdCounter,
                  _lastEmitTime, _lastReverseEmitTime, _lastFrameTime,
                  _animationFrameId, frames, handles, now, connectTimers,
                  connected, emission, lastCallback>>

lookupVars == <<lookup>>

offsetVars == <<offset>>

timerVars == <<_updateTimer>>

trailVars == <<trail>>

drawVars == <<drawing>>

vars == <<connVars, anchorVars, transformVars, zVars, particleVars, lookupVars,
          offsetVars, timerVars, trailVars, drawVars>>

\* what the connector's handlers, the calls on an entity and the transform
\* calls, each, leave alone
notConn == <<anchorVars, transformVars, zVars, particleVars, lookupVars, offsetVars,
            timerVars, trailVars, drawVars>>
notAnchor == <<connVars, transformVars, zVars, particleVars, lookupVars, offsetVars,
              timerVars, trailVars, drawVars>>
notTransform == <<connVars, anchorVars, zVars, particleVars, lookupVars, offsetVars,
                 timerVars, trailVars, drawVars>>
notZ == <<connVars, anchorVars, transformVars, particleVars, lookupVars, offsetVars,
         timerVars, trailVars, drawVars>>
notParticles == <<anchorVars, transformVars, zVars, lookupVars, offsetVars,
                  trailVars, drawVars>>
notLookup == <<connVars, anchorVars, transformVars, zVars, particleVars, offsetVars,
              timerVars, trailVars, drawVars>>
notOffset == <<connVars, anchorVars, zVars, particleVars, lookupVars, timerVars,
               trailVars, drawVars>>
notTrail == <<connVars, anchorVars, transformVars, zVars, particleVars, lookupVars,
              offsetVars, timerVars, drawVars>>
notDraw == <<connVars, anchorVars, transformVars, zVars, particleVars, lookupVars,
             offsetVars, timerVars, trailVars>>

NULL == "null"

Abs(n) == IF n < 0 THEN -n ELSE n

---------------------------------------------------------------------------
(* Lengths: n * sqrt(r).                                                   *)

Exact(k) == [n |-> k, r |-> 1]

RECURSIVE FloorSqrt(_, _, _)
\* the largest s in lo..hi with s * s <= n  (lo * lo <= n is given)
FloorSqrt(n, lo, hi) ==
  IF lo >= hi THEN lo
  ELSE LET mid == (lo + hi + 1) \div 2
       IN IF mid * mid <= n THEN FloorSqrt(n, mid, hi)
                            ELSE FloorSqrt(n, lo, mid - 1)

\* Math.sqrt on a non-negative integer
Sqrt(n) ==
  LET s == FloorSqrt(n, 0, 46340)
  IN IF s * s = n THEN Exact(s) ELSE [n |-> 1, r |-> n]

\* a + b of two lengths; a route never adds two different irrational lengths
Plus(a, b) ==
  IF a.n = 0 THEN b
  ELSE IF b.n = 0 THEN a
  ELSE IF a.r = b.r THEN [n |-> a.n + b.n, r |-> a.r]
  ELSE [n |-> -1, r |-> -1]

---------------------------------------------------------------------------
(* IsoEntity: the face/anchor model.                                       *)

FaceNames == {"top", "bottom", "front", "back", "left", "right"}

\* POSITION_MAP, in halves: u and v here are twice the code's u and v
POSITION_MAP ==
  [tl |-> [u |-> 0, v |-> 0], tc |-> [u |-> 1, v |-> 0], tr |-> [u |-> 2, v |-> 0],
   ml |-> [u |-> 0, v |-> 1], mc |-> [u |-> 1, v |-> 1], mr |-> [u |-> 2, v |-> 1],
   bl |-> [u |-> 0, v |-> 2], bc |-> [u |-> 1, v |-> 2], br |-> [u |-> 2, v |-> 2]]

PositionNames == DOMAIN POSITION_MAP

\* mutant: br is given the v of the middle row
PositionUVRowSlip(position) ==
  IF position = "br" THEN [u |-> 2, v |-> 1]
  ELSE IF position \in PositionNames THEN POSITION_MAP[position] ELSE POSITION_MAP["mc"]

\* POSITION_MAP[position] || POSITION_MAP.mc
PositionUV(position) ==
  IF position \in PositionNames THEN POSITION_MAP[position] ELSE POSITION_MAP["mc"]

\* mutant: the left face takes dy from v, as the top face does
FaceOffsetLeftByV(e, face, position) ==
  LET w == e.width
      h == e.height
      d == e.depth
      u == PositionUV(position).u
      v == PositionUV(position).v
  IN CASE face = "top"    -> [x |-> (w * (u - 1)) \div 2, y |-> (h * (v - 1)) \div 2, z |-> d]
       [] face = "bottom" -> [x |-> (w * (u - 1)) \div 2, y |-> (h * (v - 1)) \div 2, z |-> 0]
       [] face = "front"  -> [x |-> (w * (u - 1)) \div 2, y |-> h \div 2, z |-> (d * (2 - v)) \div 2]
       [] face = "back"   -> [x |-> (w * (u - 1)) \div 2, y |-> (-h) \div 2, z |-> (d * (2 - v)) \div 2]
       [] face = "left"   -> [x |-> (-w) \div 2, y |-> (h * (v - 1)) \div 2, z |-> (d * (2 - v)) \div 2]
       [] face = "right"  -> [x |-> w \div 2, y |-> (h * (u - 1)) \div 2, z |-> (d * (2 - v)) \div 2]
       [] OTHER           -> [x |-> 0, y |-> 0, z |-> 0]

\* the switch of getFaceConnectionPoint: (dx, dy, dz); a face that is no case
\* of the switch leaves all three at 0
FaceOffset(e, face, position) ==
  LET w == e.width
      h == e.height
      d == e.depth
      u == PositionUV(position).u
      v == PositionUV(position).v
  IN CASE face = "top"    -> [x |-> (w * (u - 1)) \div 2, y |-> (h * (v - 1)) \div 2, z |-> d]
       [] face = "bottom" -> [x |-> (w * (u - 1)) \div 2, y |-> (h * (v - 1)) \div 2, z |-> 0]
       [] face = "front"  -> [x |-> (w * (u - 1)) \div 2, y |-> h \div 2, z |-> (d * (2 - v)) \div 2]
       [] face = "back"   -> [x |-> (w * (u - 1)) \div 2, y |-> (-h) \div 2, z |-> (d * (2 - v)) \div 2]
       [] face = "left"   -> [x |-> (-w) \div 2, y |-> (h * (u - 1)) \div 2, z |-> (d * (2 - v)) \div 2]
       [] face = "right"  -> [x |-> w \div 2, y |-> (h * (u - 1)) \div 2, z |-> (d * (2 - v)) \div 2]
       [] OTHER           -> [x |-> 0, y |-> 0, z |-> 0]

getFaceConnectionPoint(e, face, position) ==
  LET o == FaceOffset(e, face, position)
  IN [x |-> e.x + o.x, y |-> e.y + o.y, z |-> e.z + o.z]

---------------------------------------------------------------------------
(* IsoConnector: parsing.                                                  *)
(* A connection string "id", "id@face" or "id@face:position" is the        *)
(* sequence of its parts: <<id>>, <<id, face>>, <<id, face, position>>     *)
(* (a part may be the empty string).  A route string is the sequence of    *)
(* its '-'-separated tokens: 'x-y' is <<"x", "y">>, 'auto' is <<"auto">>.  *)

_parseConnection(value) ==
  IF Len(value) = 1
    THEN [entityId |-> value[1], face |-> "top", position |-> "mc"]
    ELSE [entityId |-> value[1],
          face     |-> IF value[2] = "" THEN "top" ELSE value[2],
          position |-> IF Len(value) < 3 \/ value[3] = "" THEN "mc" ELSE value[3]]

FACE_NORMALS ==
  [top    |-> [x |-> 0,  y |-> 0,  z |-> 1],
   bottom |-> [x |-> 0,  y |-> 0,  z |-> -1],
   front  |-> [x |-> 0,  y |-> 1,  z |-> 0],
   back   |-> [x |-> 0,  y |-> -1, z |-> 0],
   left   |-> [x |-> -1, y |-> 0,  z |-> 0],
   right  |-> [x |-> 1,  y |-> 0,  z |-> 0]]

\* FACE_NORMALS[face] is undefined for a face that is no key of it, and reading
\* a field of undefined raises a TypeError
NormalDefined(face) == face \in DOMAIN FACE_NORMALS

\* doubled, as 0.5 is no integer: Math.abs(normal.z) > 0.5
_getFaceAxis(face) ==
  LET normal == FACE_NORMALS[face]
  IN IF 2 * Abs(normal.z) > 1 THEN "z"
     ELSE IF 2 * Abs(normal.y) > 1 THEN "y"
     ELSE "x"

RouteAxes == {"x", "z", "y"}

_parseRoute(rt) ==
  IF rt = <<"auto">> \/ rt = <<"direct">>
    THEN <<"x", "z", "y">>
    ELSE SelectSeq(rt, LAMBDA d : d \in RouteAxes)

Contains(s, a) == \E i \in 1..Len(s) : s[i] = a

\* mutant: the axes the user left out are not added
RouteOrderNoCompletion(rt) == _parseRoute(rt)

\* mutant: the axes the user left out are added in the order x, y, z
RouteOrderCompletesXYZ(rt) ==
  LET userAxes == _parseRoute(rt)
  IN userAxes \o SelectSeq(<<"x", "y", "z">>, LAMBDA a : ~Contains(userAxes, a))

\* [...userAxes, ...allAxes.filter(a => !userAxes.includes(a))]
RouteOrder(rt) ==
  LET userAxes == _parseRoute(rt)
  IN userAxes \o SelectSeq(<<"x", "z", "y">>, LAMBDA a : ~Contains(userAxes, a))

---------------------------------------------------------------------------
(* IsoConnector._updatePath.                                               *)

\* the threshold below which the axis walk skips an axis: 0.1
Eps == 10

RECURSIVE WalkSkipsAtEps(_, _, _, _)
\* mutant: an axis whose difference is exactly 0.1 is skipped as well
WalkSkipsAtEps(order, current, target, segs) ==
  IF order = <<>> THEN segs
  ELSE LET axis == Head(order)
           diff == target[axis] - current[axis]
           end  == [current EXCEPT ![axis] = target[axis]]
       IN IF Abs(diff) <= Eps
            THEN WalkSkipsAtEps(Tail(order), current, target, segs)
            ELSE WalkSkipsAtEps(Tail(order), end, target,
                      Append(segs, [start |-> current, end |-> end,
                                    length |-> Exact(Abs(diff)), axis |-> axis]))

RECURSIVE Walk(_, _, _, _)
\* the for loop over routeOrder
Walk(order, current, target, segs) ==
  IF order = <<>> THEN segs
  ELSE LET axis == Head(order)
           diff == target[axis] - current[axis]
           end  == [current EXCEPT ![axis] = target[axis]]
       IN IF Abs(diff) < Eps
            THEN Walk(Tail(order), current, target, segs)
            ELSE Walk(Tail(order), end, target,
                      Append(segs, [start |-> current, end |-> end,
                                    length |-> Exact(Abs(diff)), axis |-> axis]))

\* mutant: the length leaves out the height difference
DirectSegmentsFlat(fromIso, toIso) ==
  LET dx == toIso.x - fromIso.x
      dy == toIso.y - fromIso.y
  IN << [start |-> fromIso, end |-> toIso,
         length |-> Sqrt(dx * dx + dy * dy), axis |-> "direct"] >>

DirectSegments(fromIso, toIso) ==
  LET dx == toIso.x - fromIso.x
      dy == toIso.y - fromIso.y
      dz == toIso.z - fromIso.z
  IN << [start |-> fromIso, end |-> toIso,
         length |-> Sqrt(dx * dx + dy * dy + dz * dz), axis |-> "direct"] >>

\* mutant: the extension runs into the face, against the normal
ExtendedInward(p, normal, perpLen) ==
  IF perpLen > 0
    THEN [x |-> p.x - normal.x * perpLen,
          y |-> p.y - normal.y * perpLen,
          z |-> p.z - normal.z * perpLen]
    ELSE p

Extended(p, normal, perpLen) ==
  IF perpLen > 0
    THEN [x |-> p.x + normal.x * perpLen,
          y |-> p.y + normal.y * perpLen,
          z |-> p.z + normal.z * perpLen]
    ELSE p

\* the else branch of _updatePath, for two faces that have a normal
WalkSegments(fromIso, toIso, fromFace, toFace, rt, perpLen) ==
  LET fromExtended == Extended(fromIso, FACE_NORMALS[fromFace], perpLen)
      toExtended   == Extended(toIso, FACE_NORMALS[toFace], perpLen)
      first == IF perpLen > 0
                 THEN << [start |-> fromIso, end |-> fromExtended,
                          length |-> Exact(perpLen), axis |-> _getFaceAxis(fromFace)] >>
                 ELSE <<>>
      last  == IF perpLen > 0
                 THEN << [start |-> toExtended, end |-> toIso,
                          length |-> Exact(perpLen), axis |-> _getFaceAxis(toFace)] >>
                 ELSE <<>>
  IN Walk(RouteOrder(rt), fromExtended, toExtended, first) \o last

RECURSIVE SumLength(_)
\* segments.reduce((sum, seg) => sum + seg.length, 0)
SumLength(segs) ==
  IF segs = <<>> THEN Exact(0)
  ELSE Plus(SumLength(SubSeq(segs, 1, Len(segs) - 1)), segs[Len(segs)].length)

\* _updatePath on the given property values: what it leaves in _segments and
\* _totalPathLength, and whether it returned early or raised
UpdatePath(fromE, toE, fromStr, toStr, rt, perpLen) ==
  LET fromCfg == _parseConnection(fromStr)
      toCfg   == _parseConnection(toStr)
      stay(o) == [outcome |-> o, segments |-> _segments, total |-> _totalPathLength]
      done(s) == [outcome |-> "ok", segments |-> s, total |-> SumLength(s)]
  IN IF fromE = NULL \/ toE = NULL THEN stay("ok")
     ELSE LET fromIso == getFaceConnectionPoint(scene[fromE], fromCfg.face, fromCfg.position)
              toIso   == getFaceConnectionPoint(scene[toE], toCfg.face, toCfg.position)
          IN IF rt = <<"direct">> THEN done(DirectSegments(fromIso, toIso))
             ELSE IF ~NormalDefined(fromCfg.face) \/ ~NormalDefined(toCfg.face)
               THEN stay("TypeError")
             ELSE done(WalkSegments(fromIso, toIso, fromCfg.face, toCfg.face, rt, perpLen))

\* scene.querySelector(`iso-cube[entity-id="${id}"]`)
QueryEntity(id) == IF id \in DOMAIN scene THEN id ELSE NULL

\* _findEntities: an empty id leaves the entity found before
FindEntity(old, str) ==
  LET id == _parseConnection(str).entityId
  IN IF id # "" THEN QueryEntity(id) ELSE old


---------------------------------------------------------------------------
(* The connector's handlers.                                               *)

\* _findEntities (when refind) and then _updatePath, on the connector's state
FindAndUpdatePath(newFrom, newTo, newRoute, newPerp, refind) ==
  LET fromE == IF refind THEN FindEntity(_fromEntity, newFrom) ELSE _fromEntity
      toE   == IF refind THEN FindEntity(_toEntity, newTo) ELSE _toEntity
      res   == UpdatePath(fromE, toE, newFrom, newTo, newRoute, newPerp)
  IN /\ from' = newFrom
     /\ to' = newTo
     /\ route' = newRoute
     /\ perpendicularLength' = newPerp
     /\ _fromEntity' = fromE
     /\ _toEntity' = toE
     /\ _segments' = res.segments
     /\ _totalPathLength' = res.total
     /\ outcome' = res.outcome
     /\ UNCHANGED scene

\* updated(changedProperties) for one changed path property: _findEntities
\* when it is from or to, then _updatePath
Updated(newFrom, newTo, newRoute, newPerp, refind) ==
  /\ FindAndUpdatePath(newFrom, newTo, newRoute, newPerp, refind)
  /\ UNCHANGED notConn

---------------------------------------------------------------------------
(* Bounds and the values the model draws.                                  *)

\* entity b stands at 0.05 * i on x, i in 0..MaxStep
MaxStep == 2
\* the perpendicular length is 0.05 * i, i in 0..MaxPerp
MaxPerp == 2

Box(x, y, z, w, h, d) ==
  [x |-> x, y |-> y, z |-> z, width |-> w, height |-> h, depth |-> d]

Offsets == {5 * i : i \in 0..MaxStep}

\* two boxes of 0.1 x 0.1 x 0.1, b at an offset from a that is below, at or
\* above the walk's threshold, or b above a and half a box to its left; and the
\* two boxes of the route scenario, whose right@mc and left@mc anchors are
\* (0,0,50) and (100,0,50)
Scenes ==
  {[a |-> Box(0, 0, 0, 10, 10, 10), b |-> Box(bx, by, 0, 10, 10, 10)] :
      bx \in Offsets, by \in {0, 5}}
  \cup {[a |-> Box(0, 0, 0, 10, 10, 10), b |-> Box(-5, 0, 15, 10, 10, 10)]}
  \cup {[a |-> Box(-5000, 0, 0, 10000, 10000, 10000),
         b |-> Box(15000, 0, 0, 10000, 10000, 10000)]}

FromValues == {<<"a">>} \cup {<<"a", f>> : f \in FaceNames}
ToValues ==
  {<<"b">>, <<"b", "">>} \cup {<<"b", f, p>> : f \in FaceNames, p \in {"mc", "br"}}

Routes == {<<"auto">>, <<"direct">>, <<"x">>, <<"y", "z">>, <<"x", "q", "x">>}
PerpLens == {5 * i : i \in 0..MaxPerp}

---------------------------------------------------------------------------
(* Numbers of the coordinate transform.                                    *)
(* A number is a record [n, d, e] standing for (n / d) * delta^e, n / d in *)
(* lowest terms with d > 0.  delta stands for 6.1e-17, the value of        *)
(* Math.cos(Math.PI / 2): not 0, and below half an ulp of every other      *)
(* non-zero number the model forms (all of magnitude 0.2 or more), so a    *)
(* sum of two numbers of different e is its term of the smaller e, as the  *)
(* double sum rounds to it.  d = 0 marks what is not finite: n = 1 and     *)
(* n = -1 the infinities, n = 0 NaN.                                       *)

RECURSIVE GCD(_, _)
GCD(a, b) == IF b = 0 THEN a ELSE GCD(b, a % b)

Sign(k) == IF k < 0 THEN -1 ELSE IF k = 0 THEN 0 ELSE 1

Zero == [n |-> 0, d |-> 1, e |-> 0]
NaN == [n |-> 0, d |-> 0, e |-> 0]
Infinity(sign) == [n |-> sign, d |-> 0, e |-> 0]

\* n / d, d > 0
Q(n, d) ==
  IF n = 0 THEN Zero
  ELSE LET g == GCD(Abs(n), d) IN [n |-> n \div g, d |-> d \div g, e |-> 0]

\* k * delta
Tiny(k) == [n |-> k, d |-> 1, e |-> 1]

IsFinite(a) == a.d # 0

Neg(a) == [a EXCEPT !.n = -a.n]

Mul(a, b) ==
  IF a = NaN \/ b = NaN THEN NaN
  ELSE IF a.d = 0 \/ b.d = 0
    THEN IF a.n = 0 \/ b.n = 0 THEN NaN ELSE Infinity(Sign(a.n) * Sign(b.n))
  ELSE IF a.n = 0 \/ b.n = 0 THEN Zero
  ELSE LET g1 == GCD(Abs(a.n), b.d)
           g2 == GCD(Abs(b.n), a.d)
       IN [n |-> (a.n \div g1) * (b.n \div g2),
           d |-> (a.d \div g2) * (b.d \div g1),
           e |-> a.e + b.e]

Div(a, b) ==
  IF a = NaN \/ b = NaN THEN NaN
  ELSE IF b.d = 0 THEN (IF a.d = 0 THEN NaN ELSE Zero)
  ELSE IF b.n = 0 THEN (IF a.n = 0 THEN NaN ELSE Infinity(Sign(a.n)))
  ELSE Mul(a, [n |-> Sign(b.n) * b.d, d |-> Abs(b.n), e |-> -b.e])

Add(a, b) ==
  IF a = NaN \/ b = NaN THEN NaN
  ELSE IF a.d = 0 /\ b.d = 0 THEN (IF a.n = b.n THEN a ELSE NaN)
  ELSE IF a.d = 0 THEN a
  ELSE IF b.d = 0 THEN b
  ELSE IF a.n = 0 THEN b
  ELSE IF b.n = 0 THEN a
  ELSE IF a.e < b.e THEN a
  ELSE IF b.e < a.e THEN b
  ELSE LET g == GCD(a.d, b.d)
           n == a.n * (b.d \div g) + b.n * (a.d \div g)
           d == a.d * (b.d \div g)
           h == GCD(Abs(n), d)
       IN IF n = 0 THEN Zero ELSE [n |-> n \div h, d |-> d \div h, e |-> a.e]

Sub(a, b) == Add(a, Neg(b))

\* Math.cos(deg * Math.PI / 180), to three decimals
Cos(deg) ==
  CASE deg = 0  -> Q(1, 1)
    [] deg = 30 -> Q(866, 1000)
    [] deg = 45 -> Q(707, 1000)
    [] deg = 60 -> Q(500, 1000)
    [] deg = 90 -> Tiny(1)

\* Math.sin(deg * Math.PI / 180), to three decimals
Sin(deg) ==
  CASE deg = 0  -> Zero
    [] deg = 30 -> Q(500, 1000)
    [] deg = 45 -> Q(707, 1000)
    [] deg = 60 -> Q(866, 1000)
    [] deg = 90 -> Q(1, 1)

---------------------------------------------------------------------------
(* utils/isometric: the coordinate transform.                              *)

\* ISO_ANGLES
DefaultAngles == [rotateX |-> 60, rotateZ |-> 45]

getTrigValues ==
  [cosZ |-> Cos(runtimeAngles.rotateZ), sinZ |-> Sin(runtimeAngles.rotateZ),
   cosX |-> Cos(runtimeAngles.rotateX), sinX |-> Sin(runtimeAngles.rotateX)]

\* the static exports, computed once from ISO_ANGLES when the module loads
COS_Z == Cos(DefaultAngles.rotateZ)
SIN_Z == Sin(DefaultAngles.rotateZ)
COS_X == Cos(DefaultAngles.rotateX)
SIN_X == Sin(DefaultAngles.rotateX)

\* PathCalculator.isoOffsetToScreen(dx, dy, dz)
isoOffsetToScreen(d) ==
  [x |-> Sub(Mul(COS_Z, d.dx), Mul(COS_Z, d.dy)),
   y |-> Sub(Add(Mul(Mul(SIN_Z, COS_X), d.dx), Mul(Mul(SIN_Z, COS_X), d.dy)),
             Mul(SIN_X, d.dz))]

\* getFaceConnectionPointScreen: screenDx and screenDy of a face offset
faceScreenOffset(d) ==
  LET t == getTrigValues
  IN [x |-> Sub(Mul(t.cosZ, d.dx), Mul(t.cosZ, d.dy)),
      y |-> Sub(Add(Mul(Mul(t.sinZ, t.cosX), d.dx), Mul(Mul(t.sinZ, t.cosX), d.dy)),
                Mul(t.sinX, d.dz))]

isoToScreen(pos, scale, origin) ==
  LET t == getTrigValues
      xRotZ == Mul(Sub(pos.x, pos.y), t.cosZ)
      yRotZ == Mul(Add(pos.x, pos.y), t.sinZ)
      screenX == xRotZ
      screenY == Sub(Mul(yRotZ, t.cosX), Mul(pos.z, t.sinX))
  IN [x |-> Add(Mul(screenX, scale), origin.x),
      y |-> Add(Mul(screenY, scale), origin.y)]

\* mutant: the origin is not taken off the screen point
screenToIsoKeepsOrigin(screen, z, scale, origin) ==
  LET t == getTrigValues
      screenX == Div(screen.x, scale)
      screenY == Add(Div(screen.y, scale), Mul(z, t.sinX))
      xMinusY == Div(screenX, t.cosZ)
      xPlusY == Div(screenY, Mul(t.sinZ, t.cosX))
  IN [x |-> Div(Add(xMinusY, xPlusY), Q(2, 1)),
      y |-> Div(Sub(xPlusY, xMinusY), Q(2, 1)),
      z |-> z]

screenToIso(screen, z, scale, origin) ==
  LET t == getTrigValues
      screenX == Div(Sub(screen.x, origin.x), scale)
      screenY == Add(Div(Sub(screen.y, origin.y), scale), Mul(z, t.sinX))
      xMinusY == Div(screenX, t.cosZ)
      xPlusY == Div(screenY, Mul(t.sinZ, t.cosX))
  IN [x |-> Div(Add(xMinusY, xPlusY), Q(2, 1)),
      y |-> Div(Sub(xPlusY, xMinusY), Q(2, 1)),
      z |-> z]

---------------------------------------------------------------------------
(* utils/isometric: calculateZIndex.  Here coordinates and sizes are       *)
(* integers counting halves (3 is 1.5), so that the rounding has work to   *)
(* do; the value returned is a plain integer.                              *)

\* Math.round(k / 2): the nearest integer, a half going up
RoundHalves(k) == (k + 1) \div 2

\* mutant: the corner's x + y weighs 1, not 10
calculateZIndexUnweighted(pos, width, height) ==
  LET cornerX4 == 2 * pos.x + width
      cornerY4 == 2 * pos.y + height
  IN RoundHalves(((cornerX4 + cornerY4) + 2 * pos.z) \div 2)

\* calculateZIndex(pos, _depth, width, height); cornerX4 and cornerY4 count
\* quarters, and (cornerX + cornerY) * 10 + pos.z * 1 comes to
\* (5 * (cornerX4 + cornerY4) + pos.z) halves
calculateZIndex(pos, width, height) ==
  LET cornerX4 == 2 * pos.x + width
      cornerY4 == 2 * pos.y + height
  IN RoundHalves(5 * (cornerX4 + cornerY4) + pos.z)

---------------------------------------------------------------------------
(* IsoConnector: particles.  The particles property is the sequence of its *)
(* whitespace-separated parts.  Times are milliseconds; a rate counts      *)
(* particles per second; a speed counts thousandths of the path per        *)
(* second (500 is 0.5); a progress counts millionths of the path.          *)

\* progress 1
One == 1000000

\* _animationFrameId === null; the handles requestAnimationFrame returns are
\* 1, 2, ...
NoFrame == 0

Directions == {"forward", "backward", "bidirectional"}
Effects == {"none", "glow", "trail", "pulse", "rainbow", "spark"}

\* lowerPart.endsWith('hz'), lowerPart.endsWith('s') && !endsWith('ms'), over
\* the parts the model writes
EndsWithPx(part) == part \in {"0px", "4px"}
EndsWithTrail(part) == part \in {"0trail", "1trail", "8trail"}
EndsWithHz(part) == part \in {"4hz"}
EndsWithS(part) == part \in {"2s"}

\* parseFloat(part), over the parts the model writes; -1 where it is NaN
IsNumber(part) ==
  part \in {"8", "2", "0.5", "-0.5", "4hz", "2s", "0px", "4px", "0trail", "1trail",
            "8trail"}
ParseFloat1000(part) ==
  CASE part = "8" -> 8000
    [] part = "2" -> 2000
    [] part = "0.5" -> 500
    [] part = "-0.5" -> -500
    [] part = "4hz" -> 4000
    [] part = "2s" -> 2000
    [] part = "0px" -> 0
    [] part = "4px" -> 4000
    [] part = "0trail" -> 0
    [] part = "1trail" -> 1000
    [] part = "8trail" -> 8000

\* the config _parseParticles starts from (size 8, rate 2, speed 0.5, glow,
\* forward, trail 3)
DefaultParticleConfig(enabled) ==
  [enabled |-> enabled, size |-> 8000, rate |-> 2, speed |-> 500,
   effect |-> "glow", direction |-> "forward", trailLength |-> 3000]

\* _parseParticles: the loop over the parts; bare counts the bare numbers seen
RECURSIVE ParseParts(_, _, _, _)
ParseParts(parts, i, bare, config) ==
  IF i > Len(parts) THEN config
  ELSE LET part == parts[i]
       IN IF part \in Effects
            THEN ParseParts(parts, i + 1, bare, [config EXCEPT !.effect = part])
          ELSE IF part \in Directions
            THEN ParseParts(parts, i + 1, bare, [config EXCEPT !.direction = part])
          ELSE IF EndsWithPx(part)
            THEN ParseParts(parts, i + 1, bare,
                            [config EXCEPT !.size = ParseFloat1000(part)])
          ELSE IF EndsWithHz(part)
            THEN ParseParts(parts, i + 1, bare,
                            [config EXCEPT !.rate = ParseFloat1000(part) \div 1000])
          ELSE IF EndsWithS(part)
            THEN ParseParts(parts, i + 1, bare,
                            [config EXCEPT !.speed = ParseFloat1000(part)])
          ELSE IF EndsWithTrail(part)
            THEN ParseParts(parts, i + 1, bare,
                            [config EXCEPT !.trailLength = ParseFloat1000(part)])
          ELSE IF IsNumber(part)
            THEN LET num == ParseFloat1000(part)
                 IN ParseParts(parts, i + 1, bare + 1,
                      CASE bare = 0 -> [config EXCEPT !.size = num]
                        [] bare = 1 -> [config EXCEPT !.rate = num \div 1000]
                        [] bare = 2 -> [config EXCEPT !.speed = num]
                        [] bare = 3 -> [config EXCEPT !.trailLength = num]
                        [] OTHER -> config)
          ELSE ParseParts(parts, i + 1, bare, config)

_parseParticles(value) ==
  IF value = <<>> \/ value = <<"none">> THEN DefaultParticleConfig(FALSE)
  ELSE ParseParts(value, 1, 0, DefaultParticleConfig(TRUE))

\* get particleConfig, of a value of the particles property
particleConfig(value) == _parseParticles(value)

\* timestamp - last >= 1000 / rate, for a rate above 0
EmitDue(timestamp, last, rate) == (timestamp - last) * rate >= 1000

\* mutant: a forward particle that reaches 1 is dropped
AdvanceForwardDropsAtOne(ps, speed, dt) ==
  SelectSeq([i \in 1..Len(ps) |-> [ps[i] EXCEPT !.progress = @ + speed * dt]],
            LAMBDA q : q.progress < One)

\* .map(p => ({...p, progress: p.progress + config.speed * deltaTime}))
\* .filter(p => p.progress <= 1)
AdvanceForward(ps, speed, dt) ==
  SelectSeq([i \in 1..Len(ps) |-> [ps[i] EXCEPT !.progress = @ + speed * dt]],
            LAMBDA q : q.progress <= One)

\* .map(p => ({...p, progress: p.progress - config.speed * deltaTime}))
\* .filter(p => p.progress >= 0)
AdvanceBackward(ps, speed, dt) ==
  SelectSeq([i \in 1..Len(ps) |-> [ps[i] EXCEPT !.progress = @ - speed * dt]],
            LAMBDA q : q.progress >= 0)

\* _updateParticles(timestamp): the particle state after it, as a record
UpdateParticles(timestamp) ==
  LET config == particleConfig(particles)
      same == [particlesF |-> _particles, particlesB |-> _reverseParticles,
               counter |-> _particleIdCounter, lastEmit |-> _lastEmitTime,
               lastReverseEmit |-> _lastReverseEmitTime,
               lastFrame |-> _lastFrameTime, ran |-> FALSE,
               emittedF |-> FALSE, emittedB |-> FALSE]
  IN IF ~config.enabled \/ _totalPathLength.n = 0 THEN same
     ELSE
       LET lastFrame == IF _lastFrameTime = 0 THEN timestamp ELSE _lastFrameTime
           dt == timestamp - lastFrame
           emitF == /\ config.direction \in {"forward", "bidirectional"}
                    /\ EmitDue(timestamp, _lastEmitTime, config.rate)
           idB == IF emitF THEN _particleIdCounter + 1 ELSE _particleIdCounter
           emitB == /\ config.direction \in {"backward", "bidirectional"}
                    /\ EmitDue(timestamp, _lastReverseEmitTime, config.rate)
           withF == IF emitF
                      THEN Append(_particles, [id |-> _particleIdCounter,
                                               progress |-> 0, createdAt |-> timestamp])
                      ELSE _particles
           withB == IF emitB
                      THEN Append(_reverseParticles, [id |-> idB,
                                               progress |-> One, createdAt |-> timestamp])
                      ELSE _reverseParticles
       IN [particlesF |-> AdvanceForward(withF, config.speed, dt),
           particlesB |-> AdvanceBackward(withB, config.speed, dt),
           counter |-> IF emitB THEN idB + 1 ELSE idB,
           lastEmit |-> IF emitF THEN timestamp ELSE _lastEmitTime,
           lastReverseEmit |-> IF emitB THEN timestamp ELSE _lastReverseEmitTime,
           lastFrame |-> timestamp, ran |-> TRUE,
           emittedF |-> emitF, emittedB |-> emitB]

\* _startParticleAnimation: the frame state after it
_startParticleAnimation ==
  IF _animationFrameId # NoFrame \/ ~particleConfig(particles').enabled
    THEN [frameId |-> _animationFrameId, frames |-> frames, handles |-> handles,
          lastFrame |-> _lastFrameTime]
    ELSE [frameId |-> handles + 1, frames |-> frames \cup {handles + 1},
          handles |-> handles + 1, lastFrame |-> 0]

\* mutant: the handle is forgotten, the request is not cancelled
_stopParticleAnimationNoCancel ==
  [frameId |-> NoFrame, frames |-> frames, handles |-> handles,
   lastFrame |-> _lastFrameTime]

\* _stopParticleAnimation: the frame state after it
_stopParticleAnimation ==
  IF _animationFrameId # NoFrame
    THEN [frameId |-> NoFrame, frames |-> frames \ {_animationFrameId},
          handles |-> handles, lastFrame |-> _lastFrameTime]
    ELSE [frameId |-> _animationFrameId, frames |-> frames, handles |-> handles,
          lastFrame |-> _lastFrameTime]

SetFrameState(r) ==
  /\ _animationFrameId' = r.frameId
  /\ frames' = r.frames
  /\ handles' = r.handles
  /\ _lastFrameTime' = r.lastFrame

---------------------------------------------------------------------------
(* IsoConnector: position lookup.  A progress and the coordinates returned *)
(* are numbers of the transform's kind (n / d, or NaN); lengths count the  *)
(* square root of the route's radicand, which is 1 but for a direct route, *)
(* whose single length is also its total.                                  *)

\* a >= b, false when either is NaN
Geq(a, b) == IsFinite(a) /\ IsFinite(b) /\ Sub(a, b).n >= 0

\* start + (end - start) * segmentProgress, on one coordinate
Lerp(start, end, segmentProgress) ==
  Add(Q(start, 1), Mul(Q(end - start, 1), segmentProgress))

PointQ(p) == [x |-> Q(p.x, 1), y |-> Q(p.y, 1), z |-> Q(p.z, 1)]

\* the for loop of _getPositionAtProgress, from segment i on
RECURSIVE Locate(_, _, _, _)
Locate(segs, i, accumulatedDistance, targetDistance) ==
  IF i > Len(segs) THEN PointQ(segs[Len(segs)].end)
  ELSE LET segment == segs[i]
           length == Q(segment.length.n, 1)
       IN IF Geq(Add(accumulatedDistance, length), targetDistance)
            THEN LET segmentProgress ==
                       Div(Sub(targetDistance, accumulatedDistance), length)
                 IN [x |-> Lerp(segment.start.x, segment.end.x, segmentProgress),
                     y |-> Lerp(segment.start.y, segment.end.y, segmentProgress),
                     z |-> Lerp(segment.start.z, segment.end.z, segmentProgress)]
            ELSE Locate(segs, i + 1, Add(accumulatedDistance, length), targetDistance)

\* mutant: the scan tests the segment's own length, not the accumulated one
_getPositionAtProgressNoAccumulation(progress) ==
  IF Len(_segments) = 0 THEN [x |-> Zero, y |-> Zero, z |-> Zero]
  ELSE Locate(_segments, 1, Zero, Mul(progress, Q(_segments[1].length.n, 1)))

_getPositionAtProgress(progress) ==
  IF Len(_segments) = 0 THEN [x |-> Zero, y |-> Zero, z |-> Zero]
  ELSE Locate(_segments, 1, Zero, Mul(progress, Q(_totalPathLength.n, 1)))

---------------------------------------------------------------------------
(* The parts a specification leaves out stay as they are here.             *)
NoTrip ==
  [done |-> FALSE, outcome |-> "none", angles |-> DefaultAngles,
   screen |-> [x |-> Zero, y |-> Zero], iso |-> [x |-> Zero, y |-> Zero, z |-> Zero]]

NoZIndex == [a |-> [done |-> FALSE, value |-> 0], b |-> [done |-> FALSE, value |-> 0]]

NoZ == boxes = NULL /\ zIndex = NoZIndex

NoOffset ==
  [by |-> "none", angles |-> DefaultAngles, d |-> [dx |-> Zero, dy |-> Zero, dz |-> Zero],
   screen |-> [x |-> Zero, y |-> Zero]]

NoLookup ==
  lookup = [done |-> FALSE, progress |-> Zero,
            position |-> [x |-> Zero, y |-> Zero, z |-> Zero]]

NoEmission == [forward |-> 0, backward |-> 0, since |-> 0]

NoTrail == [done |-> FALSE, isReverse |-> FALSE, id |-> 0, dots |-> <<>>]

NoDrawing ==
  [stage |-> "none", fromIso |-> [x |-> 0, y |-> 0, z |-> 0],
   toIso |-> [x |-> 0, y |-> 0, z |-> 0], route |-> <<>>, zOffset |-> 0,
   segments |-> <<>>, paths |-> <<>>]

NoParticles ==
  /\ particles = <<>>
  /\ _particles = <<>>
  /\ _reverseParticles = <<>>
  /\ _particleIdCounter = 0
  /\ _lastEmitTime = 0
  /\ _lastReverseEmitTime = 0
  /\ _lastFrameTime = 0
  /\ _animationFrameId = NoFrame
  /\ frames = {}
  /\ handles = 0
  /\ now = 0
  /\ connectTimers = 0
  /\ connected = FALSE
  /\ emission = NoEmission
  /\ lastCallback = 0

NoTransform == runtimeAngles = DefaultAngles /\ sample = NULL /\ trip = NoTrip


\* no call of getFaceConnectionPoint yet
NoQuery == [face |-> NULL, position |-> NULL]
NoPoint == [x |-> 0, y |-> 0, z |-> 0]

NoEntity == entity = NULL /\ query = NoQuery /\ point = NoPoint

NoConnector ==
  /\ scene = NULL
  /\ from = <<"">>
  /\ to = <<"">>
  /\ route = <<"auto">>
  /\ perpendicularLength = 0
  /\ _fromEntity = NULL
  /\ _toEntity = NULL
  /\ _segments = <<>>
  /\ _totalPathLength = Exact(0)
  /\ outcome = "ok"

---------------------------------------------------------------------------
(* The connector: Init is the element as constructed, in a scene.          *)

ConnInit(scenes) ==
  /\ scene \in scenes
  /\ from = <<"">>
  /\ to = <<"">>
  /\ route = <<"auto">>
  /\ perpendicularLength = 0
  /\ _fromEntity = NULL
  /\ _toEntity = NULL
  /\ _segments = <<>>
  /\ _totalPathLength = Exact(0)
  /\ outcome = "ok"
  /\ NoEntity
  /\ NoTransform
  /\ NoZ
  /\ NoParticles
  /\ NoLookup
  /\ offset = NoOffset
  /\ _updateTimer = FALSE
  /\ trail = NoTrail
  /\ drawing = NoDrawing

SetFrom(values) == \E v \in values : Updated(v, to, route, perpendicularLength, TRUE)

SetTo(values) == \E v \in values : Updated(from, v, route, perpendicularLength, TRUE)

SetRoute(values) == \E r \in values : Updated(from, to, r, perpendicularLength, FALSE)

SetPerpendicularLength(values) == \E l \in values : Updated(from, to, route, l, FALSE)

\* _anglesHandler: the 'iso-angles-changed' broadcast runs _updatePath
AnglesChanged == Updated(from, to, route, perpendicularLength, FALSE)

Init == ConnInit(Scenes)

Next ==
  \/ SetFrom(FromValues)
  \/ SetTo(ToValues)
  \/ SetRoute(Routes)
  \/ SetPerpendicularLength(PerpLens)
  \/ AnglesChanged

Spec == Init /\ [][Next]_vars

---------------------------------------------------------------------------
(* The route claims, over the connector's reachable states (Spec).         *)

\* both entities were found, so the stored route was computed by _updatePath
RouteComputed == _fromEntity # NULL /\ _toEntity # NULL

FromIso ==
  getFaceConnectionPoint(scene[_fromEntity], _parseConnection(from).face,
                         _parseConnection(from).position)
ToIso ==
  getFaceConnectionPoint(scene[_toEntity], _parseConnection(to).face,
                         _parseConnection(to).position)

IsDirect == route = <<"direct">>

\* the square of the straight-line distance between the two anchor points
Dist2 ==
  (ToIso.x - FromIso.x) * (ToIso.x - FromIso.x)
  + (ToIso.y - FromIso.y) * (ToIso.y - FromIso.y)
  + (ToIso.z - FromIso.z) * (ToIso.z - FromIso.z)

\* the axes on which the two anchor points differ by at least 0.1
FarAxes == {a \in RouteAxes : Abs(ToIso[a] - FromIso[a]) >= Eps}

\* C1: in every computed route each segment ends where the next one starts.
C1_Continuity ==
  \A i \in 1..(Len(_segments) - 1) : _segments[i].end = _segments[i + 1].start

\* C2: every non-empty computed route starts at the from anchor point and ends
\* at the to anchor point.
C2_ConnectsAnchors ==
  (RouteComputed /\ _segments # <<>>) =>
    /\ _segments[1].start = FromIso
    /\ _segments[Len(_segments)].end = ToIso

\* C3: when the two anchor points are equal the computed route is the empty
\* list with total length 0, in every mode and for every perpendicular length.
C3_EmptyWhenEqual ==
  (RouteComputed /\ FromIso = ToIso) =>
    (_segments = <<>> /\ _totalPathLength = Exact(0))

RECURSIVE LengthsFrom(_, _)
\* segs[i].length + ... + segs[Len(segs)].length, for rational lengths
LengthsFrom(segs, i) ==
  IF i > Len(segs) THEN 0 ELSE segs[i].length.n + LengthsFrom(segs, i + 1)

\* the stored total is the sum of the stored segments' lengths
TotalIsSum ==
  IF Len(_segments) = 1
    THEN _totalPathLength = _segments[1].length
    ELSE /\ \A i \in 1..Len(_segments) : _segments[i].length.r = 1
         /\ _totalPathLength = Exact(LengthsFrom(_segments, 1))

\* the stored total is the straight-line distance between the anchor points
TotalIsDistance ==
  /\ _totalPathLength.n >= 0
  /\ _totalPathLength.n * _totalPathLength.n * _totalPathLength.r = Dist2

SegmentAxes == {_segments[i].axis : i \in 1..Len(_segments)}

\* C4: the stored total length is the sum of the stored segments' lengths, and
\* it is the straight-line distance between the anchor points only when the
\* route is direct or all its segments lie on one axis.
C4_LengthConsistency ==
  /\ TotalIsSum
  /\ (RouteComputed /\ TotalIsDistance) =>
       (IsDirect \/ Cardinality(SegmentAxes) <= 1)

\* C5: a direct route is one segment from the from point to the to point,
\* tagged 'direct', whose length is their Euclidean distance, for every
\* perpendicular length.
C5_Direct ==
  (RouteComputed /\ IsDirect) =>
    /\ Len(_segments) = 1
    /\ _segments[1].start = FromIso
    /\ _segments[1].end = ToIso
    /\ _segments[1].axis = "direct"
    /\ _segments[1].length.n >= 0
    /\ _segments[1].length.n * _segments[1].length.n * _segments[1].length.r = Dist2

\* a direct route of irrational length off every axis, with an extension set
C5_Witness ==
  /\ RouteComputed /\ IsDirect
  /\ perpendicularLength > 0
  /\ Cardinality(FarAxes) = 3
  /\ _segments[1].length.r # 1

\* C6: with perpendicular length 0 the axis walk emits exactly one segment for
\* each axis on which the anchor points differ by at least 0.1 and none for
\* the others, for every route string; from (0,0,50) to (100,0,50) with route
\* 'x' that is the one segment (0,0,50) -> (100,0,50) of length 100.
C6_OneSegmentPerFarAxis ==
  (RouteComputed /\ ~IsDirect /\ perpendicularLength = 0) =>
    /\ Len(_segments) = Cardinality(FarAxes)
    /\ \A a \in FarAxes : \E i \in 1..Len(_segments) : _segments[i].axis = a
    /\ (/\ FromIso = [x |-> 0, y |-> 0, z |-> 5000]
        /\ ToIso = [x |-> 10000, y |-> 0, z |-> 5000]
        /\ route = <<"x">>)
       => _segments = << [start |-> FromIso, end |-> ToIso,
                          length |-> Exact(10000), axis |-> "x"] >>

\* a walk over all three axes under a route string that repeats an axis
C6_Witness ==
  /\ RouteComputed /\ perpendicularLength = 0
  /\ route = <<"x", "q", "x">>
  /\ Cardinality(FarAxes) = 3
  /\ Len(_segments) = 3

\* the route scenario itself is reached
C6_ScenarioReached ==
  /\ RouteComputed /\ perpendicularLength = 0 /\ route = <<"x">>
  /\ FromIso = [x |-> 0, y |-> 0, z |-> 5000]
  /\ ToIso = [x |-> 10000, y |-> 0, z |-> 5000]
  /\ Len(_segments) = 1

---------------------------------------------------------------------------
(* The connector given tokens that name no face or no position             *)
(* (SpecTokens).                                                           *)

TokenScenes ==
  {[a |-> Box(0, 0, 0, 10, 10, 10), b |-> Box(20, 10, 0, 10, 20, 30)]}

TokenFromValues ==
  {<<"a">>, <<"a", "side">>, <<"a", "front", "mid">>, <<"a", "side", "tl">>}
TokenToValues ==
  {<<"b">>, <<"b", "left", "mid">>, <<"b", "side", "mid">>, <<"b", "", "br">>}

InitTokens == ConnInit(TokenScenes)

NextTokens ==
  \/ SetFrom(TokenFromValues)
  \/ SetTo(TokenToValues)
  \/ SetRoute({<<"auto">>, <<"direct">>, <<"y", "x">>})
  \/ SetPerpendicularLength(PerpLens)
  \/ AnglesChanged

SpecTokens == InitTokens /\ [][NextTokens]_vars

FromCfg == _parseConnection(from)
ToCfg == _parseConnection(to)

\* the point of the top face at the position the anchor resolves to
TopPoint(e, cfg) ==
  getFaceConnectionPoint(e, "top",
                         IF cfg.position \in PositionNames THEN cfg.position ELSE "mc")

\* C9: an anchor whose face token names no face is resolved to the top face,
\* one whose position token names no position to mc, and computing the route
\* for such anchors raises no error.
C9_UnknownTokens ==
  /\ outcome = "ok"
  /\ (RouteComputed /\ FromCfg.face \notin FaceNames) =>
       FromIso = TopPoint(scene[_fromEntity], FromCfg)
  /\ (RouteComputed /\ ToCfg.face \notin FaceNames) =>
       ToIso = TopPoint(scene[_toEntity], ToCfg)
  /\ (RouteComputed /\ ToCfg.position \notin PositionNames /\ ToCfg.face \in FaceNames) =>
       ToIso = getFaceConnectionPoint(scene[_toEntity], ToCfg.face, "mc")

\* the part of C9 that holds: a position token that names no position is mc
C9_UnknownPositionIsMc ==
  (RouteComputed /\ ToCfg.position \notin PositionNames) =>
    ToIso = getFaceConnectionPoint(scene[_toEntity], ToCfg.face, "mc")

\* no error is raised
C9_NoError == outcome = "ok"

\* an unknown face is the top face
C9_UnknownFaceIsTop ==
  (RouteComputed /\ FromCfg.face \notin FaceNames) =>
       FromIso = TopPoint(scene[_fromEntity], FromCfg)

---------------------------------------------------------------------------
(* An entity on its own and its face connection points (SpecAnchor).       *)

\* an entity's width, height and depth are 0.1 * i, i in 1..MaxDim
MaxDim == 2

Dims == {10 * i : i \in 1..MaxDim}

Entities ==
  {Box(p[1], p[2], p[3], w, h, d) :
     p \in {<<0, 0, 0>>, <<30, -20, 10>>}, w \in Dims, h \in Dims, d \in Dims}

InitAnchor ==
  /\ entity \in Entities
  /\ query = NoQuery
  /\ point = NoPoint
  /\ NoConnector
  /\ NoTransform
  /\ NoZ
  /\ NoParticles
  /\ NoLookup
  /\ offset = NoOffset
  /\ _updateTimer = FALSE
  /\ trail = NoTrail
  /\ drawing = NoDrawing

\* a call of getFaceConnectionPoint(face, position)
GetFaceConnectionPoint ==
  \E face \in FaceNames \cup {"side"}, position \in PositionNames \cup {"mid"} :
    /\ query' = [face |-> face, position |-> position]
    /\ point' = getFaceConnectionPoint(entity, face, position)
    /\ UNCHANGED <<entity, notAnchor>>

NextAnchor == GetFaceConnectionPoint

SpecAnchor == InitAnchor /\ [][NextAnchor]_vars

\* twice the (u, v) of a position: its column letter l, c, r gives u = 0, 0.5,
\* 1 and its row letter t, m, b gives v = 0, 0.5, 1
TwiceU(position) ==
  CASE position \in {"tl", "ml", "bl"} -> 0
    [] position \in {"tc", "mc", "bc"} -> 1
    [] position \in {"tr", "mr", "br"} -> 2

TwiceV(position) ==
  CASE position \in {"tl", "tc", "tr"} -> 0
    [] position \in {"ml", "mc", "mr"} -> 1
    [] position \in {"bl", "bc", "br"} -> 2

\* twice the offset the table of faces gives for (w, h, d) and (u, v)
TableOffset2(face, w, h, d, u2, v2) ==
  CASE face = "top"    -> <<w * (u2 - 1), h * (v2 - 1), 2 * d>>
    [] face = "bottom" -> <<w * (u2 - 1), h * (v2 - 1), 0>>
    [] face = "front"  -> <<w * (u2 - 1), h, d * (2 - v2)>>
    [] face = "back"   -> <<w * (u2 - 1), -h, d * (2 - v2)>>
    [] face = "left"   -> <<-w, h * (u2 - 1), d * (2 - v2)>>
    [] face = "right"  -> <<w, h * (u2 - 1), d * (2 - v2)>>

\* twice the offset of a point from the entity's position
Offset2(pt) == <<2 * (pt.x - entity.x), 2 * (pt.y - entity.y), 2 * (pt.z - entity.z)>>

NamedQuery ==
  /\ query.face \in FaceNames
  /\ query.position \in PositionNames

\* C7: for each face and position getFaceConnectionPoint returns the entity's
\* position plus the offset the table gives for that face and the position's
\* (u, v).
C7_FaceTable ==
  NamedQuery =>
    Offset2(point) = TableOffset2(query.face, entity.width, entity.height, entity.depth,
                                  TwiceU(query.position), TwiceV(query.position))

\* a corner of a side face of a box with unequal sides, away from the origin
C7_Witness ==
  /\ NamedQuery
  /\ query.face = "left" /\ query.position = "bl"
  /\ entity.width # entity.height /\ entity.height # entity.depth
  /\ entity.x # 0
  /\ point = [x |-> entity.x - entity.width \div 2,
              y |-> entity.y - entity.height \div 2,
              z |-> entity.z]

\* twice the centre of a face, as an offset from the entity's position: the box
\* spans x +- w/2, y +- h/2 and z .. z + d
FaceCentre2(face) ==
  CASE face = "top"    -> <<0, 0, 2 * entity.depth>>
    [] face = "bottom" -> <<0, 0, 0>>
    [] face = "front"  -> <<0, entity.height, entity.depth>>
    [] face = "back"   -> <<0, -entity.height, entity.depth>>
    [] face = "left"   -> <<-entity.width, 0, entity.depth>>
    [] face = "right"  -> <<entity.width, 0, entity.depth>>

Opposite(position) ==
  CASE position = "tl" -> "br" [] position = "br" -> "tl"
    [] position = "tr" -> "bl" [] position = "bl" -> "tr"
    [] position = "tc" -> "bc" [] position = "bc" -> "tc"
    [] position = "ml" -> "mr" [] position = "mr" -> "ml"
    [] position = "mc" -> "mc"

\* the offset of a point from the entity's position
Offset(pt) == <<pt.x - entity.x, pt.y - entity.y, pt.z - entity.z>>

AddVec(a, b) == <<a[1] + b[1], a[2] + b[2], a[3] + b[3]>>

\* C8: on every face mc is the centre of the face, and the offsets of two
\* opposite positions add up to twice the offset of mc.
C8_AnchorSymmetry ==
  NamedQuery =>
    /\ query.position = "mc" => Offset2(point) = FaceCentre2(query.face)
    /\ AddVec(Offset(point),
              Offset(getFaceConnectionPoint(entity, query.face, Opposite(query.position))))
         = Offset2(getFaceConnectionPoint(entity, query.face, "mc"))
    /\ AddVec(Offset(point),
              Offset(getFaceConnectionPoint(entity, query.face, Opposite(query.position))))
         = FaceCentre2(query.face)

\* a corner whose opposite corner differs from it on two coordinates
C8_Witness ==
  /\ NamedQuery
  /\ query.face = "front" /\ query.position = "tl"
  /\ entity.width # entity.depth
  /\ point # getFaceConnectionPoint(entity, "front", "br")
  /\ point.y = getFaceConnectionPoint(entity, "front", "br").y

---------------------------------------------------------------------------
(* The coordinate transform and its round trip (SpecTransform).            *)

\* the ground coordinates of a sample point are integers in -MaxCoord..MaxCoord
MaxCoord == 1

Coords == {Q(k, 1) : k \in (-MaxCoord)..MaxCoord}

\* points on and off the ground, the scales 0, 1/2 and 2, the origins (0,0)
\* and (100,50)
Samples ==
  [p : [x : Coords, y : Coords, z : {Zero, Q(1, 1)}],
   scale : {Zero, Q(1, 2), Q(2, 1)},
   origin : {[x |-> Zero, y |-> Zero], [x |-> Q(100, 1), y |-> Q(50, 1)]}]

AngleConfigs == [rotateX : {30, 60, 90}, rotateZ : {0, 45, 90}]

InitTransform ==
  /\ runtimeAngles = DefaultAngles
  /\ sample \in Samples
  /\ trip = NoTrip
  /\ NoConnector
  /\ NoEntity
  /\ NoZ
  /\ NoParticles
  /\ NoLookup
  /\ offset = NoOffset
  /\ _updateTimer = FALSE
  /\ trail = NoTrail
  /\ drawing = NoDrawing

\* updateAngles(rotateX, rotateZ)
updateAngles ==
  \E a \in AngleConfigs :
    /\ runtimeAngles' = a
    /\ UNCHANGED <<sample, trip, notTransform>>

\* screenToIso(isoToScreen(p, scale, origin), 0, scale, origin); screenToIso
\* has no throw statement and a division by 0 does not throw, so the call
\* always ends by returning its { x, y, z }
RoundTrip ==
  LET screen == isoToScreen(sample.p, sample.scale, sample.origin)
  IN /\ trip' = [done |-> TRUE, outcome |-> "returned", angles |-> runtimeAngles,
                 screen |-> screen,
                 iso |-> screenToIso(screen, Zero, sample.scale, sample.origin)]
     /\ UNCHANGED <<runtimeAngles, sample, notTransform>>

NextTransform ==
  \/ updateAngles
  \/ RoundTrip

SpecTransform == InitTransform /\ [][NextTransform]_vars

\* |a - b| < 1e-6
Close(a, b) ==
  LET diff == Sub(a, b)
  IN /\ IsFinite(a) /\ IsFinite(b)
     /\ \/ diff.n = 0
        \/ diff.e > 0
        \/ diff.e = 0 /\ Abs(diff.n) <= (diff.d - 1) \div 1000000

OnGround == sample.p.z = Zero

\* sin(rotateZ) # 0 and cos(rotateX) # 0
NonDegenerate(a) == a.rotateZ % 180 # 0 /\ a.rotateX % 180 # 90

RoundTripExact ==
  /\ Close(trip.iso.x, sample.p.x)
  /\ Close(trip.iso.y, sample.p.y)

C11_DegenerateFailsExplicitly ==
  (trip.done /\ ~NonDegenerate(trip.angles)) =>
    trip.outcome = "failed"

\* what the code does at rotateZ = 0: it returns, and what it returns is not
\* finite
C11_ReturnsNonFinite ==
  /\ trip.done /\ trip.angles.rotateZ = 0
  /\ trip.outcome = "returned"
  /\ ~IsFinite(trip.iso.x)

---------------------------------------------------------------------------
(* The z-index of two boxes (SpecZIndex).                                  *)

\* box centres lie within MaxZCoord halves of the origin on x and y
MaxZCoord == 2

ZCoords == (-MaxZCoord)..MaxZCoord

\* two boxes of one size, the first at height 0 or 0.5, the second at height 0,
\* 0.5 or 20; sizes 0x0 (the default arguments), 0.5x1 and 1.5x1.5; and the
\* boxes (0,0,0) and (200,200,0), both 100x100
BoxPairs ==
  [a : [x : ZCoords, y : {0}, z : {0, 1}],
   b : [x : ZCoords, y : ZCoords, z : {0, 1, 40}],
   size : {[width |-> 0, height |-> 0], [width |-> 1, height |-> 2],
           [width |-> 3, height |-> 3]}]
  \cup {[a |-> [x |-> 0, y |-> 0, z |-> 0], b |-> [x |-> 400, y |-> 400, z |-> 0],
         size |-> [width |-> 200, height |-> 200]]}

InitZIndex ==
  /\ boxes \in BoxPairs
  /\ zIndex = NoZIndex
  /\ NoConnector
  /\ NoEntity
  /\ NoTransform
  /\ NoParticles
  /\ NoLookup
  /\ offset = NoOffset
  /\ _updateTimer = FALSE
  /\ trail = NoTrail
  /\ drawing = NoDrawing

\* calculateZIndex(boxes.a, _, width, height)
CalculateZIndexA ==
  /\ zIndex' = [zIndex EXCEPT !.a = [done |-> TRUE, value |->
                  calculateZIndex(boxes.a, boxes.size.width, boxes.size.height)]]
  /\ UNCHANGED <<boxes, notZ>>

\* calculateZIndex(boxes.b, _, width, height)
CalculateZIndexB ==
  /\ zIndex' = [zIndex EXCEPT !.b = [done |-> TRUE, value |->
                  calculateZIndex(boxes.b, boxes.size.width, boxes.size.height)]]
  /\ UNCHANGED <<boxes, notZ>>

NextZIndex ==
  \/ CalculateZIndexA
  \/ CalculateZIndexB

SpecZIndex == InitZIndex /\ [][NextZIndex]_vars

\* 4 * (10*((pos.x + width/2) + (pos.y + height/2)) + pos.z)
Claimed4(pos) ==
  10 * ((2 * pos.x + boxes.size.width) + (2 * pos.y + boxes.size.height)) + 2 * pos.z

\* r is an integer nearest to Claimed4(pos) / 4
IsRounded(r, pos) == Abs(4 * r - Claimed4(pos)) <= 2

IntegerCoordinates(pos) == pos.x % 2 = 0 /\ pos.y % 2 = 0 /\ pos.z % 2 = 0

\* C12: calculateZIndex(pos, _, width, height) is
\* round(10*((pos.x + width/2) + (pos.y + height/2)) + pos.z), and for
\* integer coordinates two boxes of equal size and equal z are ranked by x + y,
\* the greater x + y getting the strictly greater rank.
C12_ZIndex ==
  /\ zIndex.a.done => IsRounded(zIndex.a.value, boxes.a)
  /\ zIndex.b.done => IsRounded(zIndex.b.value, boxes.b)
  /\ (/\ zIndex.a.done /\ zIndex.b.done
      /\ IntegerCoordinates(boxes.a) /\ IntegerCoordinates(boxes.b)
      /\ boxes.a.z = boxes.b.z) =>
       /\ boxes.a.x + boxes.a.y < boxes.b.x + boxes.b.y =>
            zIndex.a.value < zIndex.b.value
       /\ boxes.a.x + boxes.a.y > boxes.b.x + boxes.b.y =>
            zIndex.a.value > zIndex.b.value

\* the boxes (0,0,0) and (200,200,0), both 100x100, ranked
C12_Witness ==
  /\ zIndex.a.done /\ zIndex.b.done
  /\ boxes.a = [x |-> 0, y |-> 0, z |-> 0]
  /\ boxes.b = [x |-> 400, y |-> 400, z |-> 0]
  /\ boxes.size = [width |-> 200, height |-> 200]
  /\ zIndex.a.value = 1000
  /\ zIndex.b.value = 5000

\* a rank that had to be rounded (12.5 to 13): centre (0.5, 0, 0), size 0.5x1
C12_RoundedReached ==
  /\ zIndex.b.done
  /\ boxes.b = [x |-> 1, y |-> 0, z |-> 0]
  /\ boxes.size = [width |-> 1, height |-> 2]
  /\ zIndex.b.value = 13

---------------------------------------------------------------------------
(* The particle animation of a connected connector (SpecParticles).        *)

\* requestAnimationFrame is called at most MaxHandles times
MaxHandles == 4
\* at most MaxTimers of connectedCallback's timeouts are pending at a time
MaxTimers == 1

\* a and b apart (a route of length 10), and a and b in one place (no route)
ParticleScenes ==
  {[a |-> Box(0, 0, 0, 10, 10, 10), b |-> Box(bx, 0, 0, 10, 10, 10)] : bx \in {1000, 0}}

\* '', 'none', '8 2 0.5', '4hz 2s bidirectional', '8 2 -0.5', 'backward'
ParticleValues ==
  {<<>>, <<"none">>, <<"8", "2", "0.5">>, <<"4hz", "2s", "bidirectional">>,
   <<"8", "2", "-0.5">>, <<"backward">>}

\* the time between two frames, ms
Spacings == {500, 1000}

\* the to attribute names b, or a itself (a route of length 0)
ParticleToValues == {<<"a">>, <<"b">>}

\* the element with from='a' and to='b', connected and updated once: the
\* route is computed, connectedCallback's timeout is pending
InitParticles ==
  /\ scene \in ParticleScenes
  /\ from = <<"a">>
  /\ to = <<"b">>
  /\ route = <<"auto">>
  /\ perpendicularLength = 0
  /\ _fromEntity = "a"
  /\ _toEntity = "b"
  /\ LET res == UpdatePath("a", "b", from, to, route, perpendicularLength)
     IN /\ _segments = res.segments
        /\ _totalPathLength = res.total
        /\ outcome = res.outcome
  /\ particles = <<>>
  /\ _particles = <<>>
  /\ _reverseParticles = <<>>
  /\ _particleIdCounter = 0
  /\ _lastEmitTime = 0
  /\ _lastReverseEmitTime = 0
  /\ _lastFrameTime = 0
  /\ _animationFrameId = NoFrame
  /\ frames = {}
  /\ handles = 0
  /\ now = 1000
  /\ connectTimers = 1
  /\ connected = TRUE
  /\ emission = NoEmission
  /\ lastCallback = 0
  /\ NoEntity
  /\ NoTransform
  /\ NoZ
  /\ NoLookup
  /\ offset = NoOffset
  /\ _updateTimer = FALSE
  /\ trail = NoTrail
  /\ drawing = NoDrawing

\* the particles property is set and updated() runs for it
SetParticles ==
  \E v \in ParticleValues :
    /\ v # particles
    /\ handles < MaxHandles
    /\ particles' = v
    /\ SetFrameState(IF particleConfig(v).enabled THEN _startParticleAnimation
                     ELSE _stopParticleAnimation)
    /\ _particles' = <<>>
    /\ _reverseParticles' = <<>>
    /\ _lastEmitTime' = 0
    /\ _lastReverseEmitTime' = 0
    /\ emission' = NoEmission
    /\ lastCallback' = IF handles' # handles THEN 0 ELSE lastCallback
    /\ UNCHANGED <<_particleIdCounter, now, connectTimers, connected, connVars,
                   notParticles>>
    /\ UNCHANGED _updateTimer

\* connectedCallback
ConnectedCallback ==
  /\ ~connected
  /\ connectTimers < MaxTimers
  /\ connected' = TRUE
  /\ connectTimers' = connectTimers + 1
  /\ UNCHANGED <<particles, _particles, _reverseParticles, _particleIdCounter,
                 _lastEmitTime, _lastReverseEmitTime, _lastFrameTime,
                 _animationFrameId, frames, handles, now, emission,
                 lastCallback, connVars, notParticles>>
  /\ UNCHANGED _updateTimer

\* connectedCallback's timeout fires: _findEntities, _updatePath,
\* _startParticleAnimation (not reached when _updatePath throws)
ConnectTimeout ==
  /\ connectTimers > 0
  /\ handles < MaxHandles
  /\ connectTimers' = connectTimers - 1
  /\ FindAndUpdatePath(from, to, route, perpendicularLength, TRUE)
  /\ UNCHANGED particles
  /\ IF outcome' = "ok" THEN SetFrameState(_startParticleAnimation)
     ELSE UNCHANGED <<_animationFrameId, frames, handles, _lastFrameTime>>
  /\ emission' = IF handles' # handles THEN NoEmission ELSE emission
  /\ lastCallback' = IF handles' # handles THEN 0 ELSE lastCallback
  /\ UNCHANGED <<_particles, _reverseParticles, _particleIdCounter,
                 _lastEmitTime, _lastReverseEmitTime, now, connected,
                 notParticles>>
  /\ UNCHANGED _updateTimer

\* disconnectedCallback
DisconnectedCallback ==
  /\ connected
  /\ connected' = FALSE
  /\ SetFrameState(_stopParticleAnimation)
  /\ UNCHANGED <<particles, _particles, _reverseParticles, _particleIdCounter,
                 _lastEmitTime, _lastReverseEmitTime, now, connectTimers,
                 emission, lastCallback, connVars, notParticles>>
  /\ _updateTimer' = FALSE

\* the browser runs a pending frame callback, dt after the frame before:
\* animate(timestamp) is _updateParticles(timestamp) and a new request
Frame ==
  \E id \in frames, dt \in Spacings :
    LET timestamp == now + dt
        u == UpdateParticles(timestamp)
    IN /\ handles < MaxHandles
       /\ now' = timestamp
       /\ _particles' = u.particlesF
       /\ _reverseParticles' = u.particlesB
       /\ _particleIdCounter' = u.counter
       /\ _lastEmitTime' = u.lastEmit
       /\ _lastReverseEmitTime' = u.lastReverseEmit
       /\ _lastFrameTime' = u.lastFrame
       /\ _animationFrameId' = handles + 1
       /\ frames' = (frames \ {id}) \cup {handles + 1}
       /\ handles' = handles + 1
       /\ emission' =
            IF ~u.ran THEN emission
            ELSE [forward |-> emission.forward + (IF u.emittedF THEN 1 ELSE 0),
                  backward |-> emission.backward + (IF u.emittedB THEN 1 ELSE 0),
                  since |-> IF emission.since = 0 THEN timestamp ELSE emission.since]
       /\ lastCallback' = timestamp
       /\ UNCHANGED <<particles, connectTimers, connected, connVars, notParticles>>
       /\ UNCHANGED _updateTimer

NextParticles ==
  \/ SetParticles
  \/ SetTo(ParticleToValues)
  \/ ConnectedCallback
  \/ ConnectTimeout
  \/ DisconnectedCallback
  \/ Frame

SpecParticles == InitParticles /\ [][NextParticles]_vars

\* a step in which a frame callback ran _updateParticles past its early return
FrameRan == now' # now /\ _lastFrameTime' = now'

\* the elapsed time of that update, ms
ElapsedMs == IF _lastFrameTime = 0 THEN 0 ELSE now' - _lastFrameTime

Speed == particleConfig(particles).speed

Ids(ps) == {ps[i].id : i \in 1..Len(ps)}

\* the particle of id k in ps
ById(ps, k) == ps[CHOOSE i \in 1..Len(ps) : ps[i].id = k]

\* C13: in one update with elapsed time dt >= 0 and speed s > 0 each forward
\* particle's progress becomes progress + s*dt and the particle is removed
\* exactly when that is greater than 1 (a particle at exactly 1 is kept); each
\* backward particle is created at progress 1, its progress becomes
\* progress - s*dt, and it is removed exactly when that is less than 0.
C13_ParticleStep ==
  [][(FrameRan /\ Speed > 0 /\ ElapsedMs >= 0) =>
       /\ \A k \in Ids(_particles) :
            LET moved == ById(_particles, k).progress + Speed * ElapsedMs
            IN /\ (k \in Ids(_particles')) <=> ~(moved > One)
               /\ k \in Ids(_particles') => ById(_particles', k).progress = moved
       /\ \A k \in Ids(_reverseParticles) :
            LET moved == ById(_reverseParticles, k).progress - Speed * ElapsedMs
            IN /\ (k \in Ids(_reverseParticles')) <=> ~(moved < 0)
               /\ k \in Ids(_reverseParticles') =>
                    ById(_reverseParticles', k).progress = moved
       /\ \A k \in Ids(_reverseParticles') \ Ids(_reverseParticles) :
            ById(_reverseParticles', k).progress = One - Speed * ElapsedMs
    ]_vars

\* a forward particle has arrived at exactly 1 and is kept, after updates that
\* moved it
C13_Witness ==
  /\ Speed > 0
  /\ \E i \in 1..Len(_particles) :
       /\ _particles[i].progress = One
       /\ _particles[i].createdAt < _lastFrameTime

\* a forward particle has been removed; a backward particle has arrived at
\* exactly 0 and is kept; a backward particle has been removed
C13_ForwardRemoved == Speed > 0 /\ emission.forward > Len(_particles)
C13_BackwardAtZero ==
  Speed > 0 /\ \E i \in 1..Len(_reverseParticles) : _reverseParticles[i].progress = 0
C13_BackwardRemoved == Speed > 0 /\ emission.backward > Len(_reverseParticles)

\* C14: after every update step every live particle of either stream has a
\* progress within [0,1], for every configured speed and every non-negative
\* elapsed time.
C14_ProgressInRange ==
  /\ \A i \in 1..Len(_particles) :
       0 <= _particles[i].progress /\ _particles[i].progress <= One
  /\ \A i \in 1..Len(_reverseParticles) :
       0 <= _reverseParticles[i].progress /\ _reverseParticles[i].progress <= One

\* the time, ms, the streams have run: from the first update to the last
RunTimeMs == _lastFrameTime - emission.since

\* C15: each enabled stream emits at the configured rate R per second: after
\* running for T seconds it has emitted R*T particles to within one, whatever
\* the spacing of the frames, the forward and the backward stream each.
C15_EmissionRate ==
  LET config == particleConfig(particles)
  IN (config.enabled /\ emission.since # 0) =>
       /\ config.direction \in {"forward", "bidirectional"} =>
            Abs(1000 * emission.forward - config.rate * RunTimeMs) <= 1000
       /\ config.direction \in {"backward", "bidirectional"} =>
            Abs(1000 * emission.backward - config.rate * RunTimeMs) <= 1000

\* a step that calls _stopParticleAnimation: disconnectedCallback, or
\* updated() for a particles value that disables the particles
StopStep ==
  \/ connected /\ ~connected'
  \/ particles' # particles /\ ~particleConfig(particles').enabled

\* a step that calls _startParticleAnimation: connectedCallback's timeout, or
\* updated() for a particles value that enables the particles
StartStep ==
  \/ connectTimers' < connectTimers
  \/ particles' # particles /\ particleConfig(particles').enabled

\* C18: stopping the particle animation loop is idempotent and leaves no
\* scheduled tick: while the loop is stopped no frame callback is pending, a
\* second stop changes nothing, never is more than one frame callback
\* pending, and starting a running loop schedules nothing.
C18_StopIdempotent ==
  /\ [](/\ Cardinality(frames) <= 1
        /\ _animationFrameId = NoFrame => frames = {}
        /\ _animationFrameId # NoFrame => frames = {_animationFrameId})
  /\ [][(StopStep /\ _animationFrameId = NoFrame) =>
          UNCHANGED <<_animationFrameId, frames, handles, _lastFrameTime>>]_vars
  /\ [][StopStep => (_animationFrameId' = NoFrame /\ frames' = {})]_vars
  /\ [][(StartStep /\ _animationFrameId # NoFrame) =>
          UNCHANGED <<_animationFrameId, frames, handles>>]_vars

\* the loop has run frames and has been stopped, by a disconnectedCallback
\* and by a disabling particles value
C18_Witness ==
  /\ handles > 1
  /\ _animationFrameId = NoFrame
  /\ frames = {}
  /\ ~connected
  /\ ~particleConfig(particles).enabled

---------------------------------------------------------------------------
(* Position lookup on the routes of a connector (SpecLookup).              *)

\* a progress is k / MaxParts, k in -1 .. MaxParts + 1
MaxParts == 4

Progresses == {Q(k, MaxParts) : k \in (-1)..(MaxParts + 1)}

\* a's top centre at (0,0,0), b's at (10,10,0); b on a; b 0.05 from a on y;
\* and b on a with their top centres at (0,0,0.1)
LookupScenes ==
  {[a |-> Box(0, 0, -10, 10, 10, 10), b |-> Box(bx, by, -10, 10, 10, 10)] :
      <<bx, by>> \in {<<1000, 1000>>, <<0, 0>>, <<0, 5>>}}
  \cup {[a |-> Box(0, 0, 0, 10, 10, 10), b |-> Box(0, 0, 0, 10, 10, 10)]}

LookupToValues == {<<"b">>, <<"b", "right", "mc">>}
LookupRoutes == {<<"x", "y">>, <<"direct">>, <<"auto">>}
LookupPerpLens == {0, 10}

\* the connector with from='a', its to, route and perpendicular-length set and
\* the route computed
InitLookup ==
  /\ scene \in LookupScenes
  /\ from = <<"a">>
  /\ to \in LookupToValues
  /\ route \in LookupRoutes
  /\ perpendicularLength \in LookupPerpLens
  /\ _fromEntity = "a"
  /\ _toEntity = "b"
  /\ LET res == UpdatePath("a", "b", from, to, route, perpendicularLength)
     IN /\ _segments = res.segments
        /\ _totalPathLength = res.total
        /\ outcome = res.outcome
  /\ lookup = [done |-> FALSE, progress |-> Zero,
               position |-> [x |-> Zero, y |-> Zero, z |-> Zero]]
  /\ NoEntity
  /\ NoTransform
  /\ NoZ
  /\ NoParticles
  /\ offset = NoOffset
  /\ _updateTimer = FALSE
  /\ trail = NoTrail
  /\ drawing = NoDrawing

\* _getPositionAtProgress(progress)
GetPositionAtProgress ==
  \E progress \in Progresses :
    /\ lookup' = [done |-> TRUE, progress |-> progress,
                  position |-> _getPositionAtProgress(progress)]
    /\ UNCHANGED notLookup

NextLookup == GetPositionAtProgress

SpecLookup == InitLookup /\ [][NextLookup]_vars

\* the total length of segments 1 .. i - 1
RECURSIVE LengthBefore(_)
LengthBefore(i) == IF i <= 1 THEN 0 ELSE LengthBefore(i - 1) + _segments[i - 1].length.n

\* the progress p = pn / pd puts the arclength p * total on segment i, and the
\* position returned is the point of segment i at that arclength
OnSegment(i) ==
  LET pn == lookup.progress.n
      pd == lookup.progress.d
      len == _segments[i].length.n
      \* pd * (arclength - length before i)
      into == pn * _totalPathLength.n - pd * LengthBefore(i)
      at(c) == Q(_segments[i].start[c] * len * pd
                   + (_segments[i].end[c] - _segments[i].start[c]) * into, len * pd)
  IN /\ 0 <= into /\ into <= len * pd
     /\ lookup.position = [x |-> at("x"), y |-> at("y"), z |-> at("z")]

InUnitRange(p) == IsFinite(p) /\ 0 <= p.n /\ p.n <= p.d

ScenarioPath ==
  /\ Len(_segments) = 2
  /\ _segments[1].start = [x |-> 0, y |-> 0, z |-> 0]
  /\ _segments[1].end = [x |-> 1000, y |-> 0, z |-> 0]
  /\ _segments[2].start = [x |-> 1000, y |-> 0, z |-> 0]
  /\ _segments[2].end = [x |-> 1000, y |-> 1000, z |-> 0]
  /\ _totalPathLength = Exact(2000)

\* C16: for a route of positive total length and a progress p in [0,1] the
\* lookup returns the point at arclength p * total: it lies on the segment
\* containing that arclength, with a fraction in [0,1]; p = 0 gives the first
\* segment's start, p = 1 the last segment's end, and on the path
\* (0,0,0) -> (10,0,0) -> (10,10,0) p = 0.5 gives (10,0,0).
C16_Lookup ==
  (lookup.done /\ _totalPathLength.n > 0 /\ InUnitRange(lookup.progress)) =>
    /\ \E i \in 1..Len(_segments) : OnSegment(i)
    /\ lookup.progress = Zero => lookup.position = PointQ(_segments[1].start)
    /\ lookup.progress = Q(1, 1) =>
         lookup.position = PointQ(_segments[Len(_segments)].end)
    /\ (ScenarioPath /\ lookup.progress = Q(1, 2)) =>
         lookup.position = PointQ([x |-> 1000, y |-> 0, z |-> 0])

\* the scenario: progress 0.5 on (0,0,0) -> (10,0,0) -> (10,10,0)
C16_Witness ==
  /\ lookup.done
  /\ ScenarioPath
  /\ lookup.progress = Q(1, 2)
  /\ lookup.position = PointQ([x |-> 1000, y |-> 0, z |-> 0])

\* a point inside a segment that is not the first, on a route with extensions
C16_InsideReached ==
  /\ lookup.done /\ InUnitRange(lookup.progress)
  /\ Len(_segments) >= 3
  /\ \E i \in 2..Len(_segments) :
       /\ OnSegment(i)
       /\ lookup.position # PointQ(_segments[i].start)
       /\ lookup.position # PointQ(_segments[i].end)

\* C17: when the segment list is empty or the total length is 0 (a direct
\* route between two equal points included) the lookup returns the route's
\* from point and no coordinate is NaN, for every progress.
C17_ZeroLengthLookup ==
  (lookup.done /\ (Len(_segments) = 0 \/ _totalPathLength.n = 0)) =>
    /\ IsFinite(lookup.position.x)
    /\ IsFinite(lookup.position.y)
    /\ IsFinite(lookup.position.z)
    /\ lookup.position = PointQ(FromIso)

\* what the code returns on a direct route between two equal points: NaN
C17_NaNReached ==
  /\ lookup.done
  /\ Len(_segments) = 1 /\ _totalPathLength.n = 0
  /\ lookup.position.x = NaN

\* what the code returns on an empty route: the origin, not the from point
C17_OriginReached ==
  /\ lookup.done
  /\ Len(_segments) = 0
  /\ lookup.position = [x |-> Zero, y |-> Zero, z |-> Zero]
  /\ PointQ(FromIso) # lookup.position

---------------------------------------------------------------------------
(* Screen offsets under changing angles (SpecAngles).                      *)

\* the components of an iso offset are integers in 0..MaxOffset
MaxOffset == 1

IsoOffsets ==
  [dx : {Q(k, 1) : k \in 0..MaxOffset}, dy : {Q(k, 1) : k \in 0..MaxOffset},
   dz : {Q(k, 1) : k \in 0..MaxOffset}]

InitAngles ==
  /\ runtimeAngles = DefaultAngles
  /\ sample = NULL
  /\ trip = NoTrip
  /\ offset = NoOffset
  /\ NoConnector
  /\ NoEntity
  /\ NoZ
  /\ NoParticles
  /\ NoLookup
  /\ _updateTimer = FALSE
  /\ trail = NoTrail
  /\ drawing = NoDrawing

\* IsoScene._anglesHandler for an 'iso-angles-changed' event whose detail
\* has rotateX and rotateZ
SceneAnglesHandler ==
  \E a \in AngleConfigs :
    /\ runtimeAngles' = a
    /\ UNCHANGED <<sample, trip, offset, notOffset>>

\* PathCalculator.isoOffsetToScreen(dx, dy, dz)
IsoOffsetToScreen ==
  \E d \in IsoOffsets :
    /\ offset' = [by |-> "isoOffsetToScreen", angles |-> runtimeAngles, d |-> d,
                  screen |-> isoOffsetToScreen(d)]
    /\ UNCHANGED <<transformVars, notOffset>>

\* getFaceConnectionPointScreen: the screen offset of a face offset
FaceScreenOffset ==
  \E d \in IsoOffsets :
    /\ offset' = [by |-> "getFaceConnectionPointScreen", angles |-> runtimeAngles,
                  d |-> d, screen |-> faceScreenOffset(d)]
    /\ UNCHANGED <<transformVars, notOffset>>

NextAngles ==
  \/ SceneAnglesHandler
  \/ IsoOffsetToScreen
  \/ FaceScreenOffset

SpecAngles == InitAngles /\ [][NextAngles]_vars

\* the screen offset of the iso offset d under the angles a:
\* x = (dx - dy) cos(rotateZ), y = (dx + dy) sin(rotateZ) cos(rotateX) - dz sin(rotateX)
ProjectedOffset(a, d) ==
  [x |-> Mul(Sub(d.dx, d.dy), Cos(a.rotateZ)),
   y |-> Sub(Mul(Mul(Add(d.dx, d.dy), Sin(a.rotateZ)), Cos(a.rotateX)),
             Mul(d.dz, Sin(a.rotateX)))]

\* C19: after an angle-change broadcast has been handled every later
\* transform computation uses the broadcast angles, none uses angle values
\* captured before the broadcast.
C19_UsesCurrentAngles ==
  offset.by # "none" => offset.screen = ProjectedOffset(offset.angles, offset.d)

\* the part of C19 the code keeps: the screen offset of a face point is
\* computed from the runtime angles
C19_FaceOffsetUsesCurrentAngles ==
  offset.by = "getFaceConnectionPointScreen" =>
    offset.screen = ProjectedOffset(offset.angles, offset.d)

C19_FaceOffsetWitness ==
  /\ offset.by = "getFaceConnectionPointScreen"
  /\ offset.angles = [rotateX |-> 30, rotateZ |-> 90]
  /\ offset.d = [dx |-> Q(1, 1), dy |-> Zero, dz |-> Q(1, 1)]

---------------------------------------------------------------------------
(* The stored route while its inputs change (SpecInputs).                  *)

\* entity b stands at 10 * i on x and is 0.1 * (i + 1) wide, i in 0..MaxMove
MaxMove == 1

InputToValues == {<<"b">>, <<"b", "right", "mc">>}
InputRoutes == {<<"auto">>, <<"direct">>, <<"y", "x">>}
InputPerpLens == {0, 10}

\* the connector with from='a' and to='b', connected and updated once
InitInputs ==
  /\ scene = [a |-> Box(0, 0, 0, 10, 10, 10), b |-> Box(1000, 0, 0, 10, 10, 10)]
  /\ from = <<"a">>
  /\ to = <<"b">>
  /\ route = <<"auto">>
  /\ perpendicularLength = 0
  /\ _fromEntity = "a"
  /\ _toEntity = "b"
  /\ LET res == UpdatePath("a", "b", from, to, route, perpendicularLength)
     IN /\ _segments = res.segments
        /\ _totalPathLength = res.total
        /\ outcome = res.outcome
  /\ _updateTimer = FALSE
  /\ trail = NoTrail
  /\ drawing = NoDrawing
  /\ NoEntity
  /\ NoTransform
  /\ NoZ
  /\ NoParticles
  /\ NoLookup
  /\ offset = NoOffset

\* entity b's x is set: IsoEntity.updated runs updatePosition, which writes
\* the entity's own style and tells nobody
SetEntityX ==
  \E i \in 0..MaxMove :
    /\ scene' = [scene EXCEPT !["b"].x = 1000 * i]
    /\ scene' # scene
    /\ UNCHANGED <<from, to, route, perpendicularLength, _fromEntity, _toEntity,
                   _segments, _totalPathLength, outcome, notConn>>

\* entity b's width is set: the same
SetEntityWidth ==
  \E i \in 0..MaxMove :
    /\ scene' = [scene EXCEPT !["b"].width = 10 * (i + 1)]
    /\ scene' # scene
    /\ UNCHANGED <<from, to, route, perpendicularLength, _fromEntity, _toEntity,
                   _segments, _totalPathLength, outcome, notConn>>

\* the ResizeObserver on the scene fires: _scheduleUpdate
ScheduleUpdate ==
  /\ _updateTimer' = TRUE
  /\ UNCHANGED <<connVars, anchorVars, transformVars, zVars, particleVars,
                 lookupVars, offsetVars, trailVars, drawVars>>

\* the timeout of _scheduleUpdate fires: _updatePath
UpdateTimeout ==
  /\ _updateTimer
  /\ _updateTimer' = FALSE
  /\ FindAndUpdatePath(from, to, route, perpendicularLength, FALSE)
  /\ UNCHANGED <<anchorVars, transformVars, zVars, particleVars, lookupVars,
                 offsetVars, trailVars, drawVars>>

NextInputs ==
  \/ SetEntityX
  \/ SetEntityWidth
  \/ SetTo(InputToValues)
  \/ SetRoute(InputRoutes)
  \/ SetPerpendicularLength(InputPerpLens)
  \/ ScheduleUpdate
  \/ UpdateTimeout

SpecInputs == InitInputs /\ [][NextInputs]_vars

\* the route _updatePath computes from the current values
CurrentRoute ==
  UpdatePath(_fromEntity, _toEntity, from, to, route, perpendicularLength).segments

\* C20: the stored route reflects the current inputs: after any change of an
\* endpoint entity's position or size, of an anchor, of the axis order or of
\* the perpendicular length, once the connector's pending updates have run,
\* the stored segments are the route computed from the current values.
C20_RouteReflectsInputs ==
  ~_updateTimer => _segments = CurrentRoute

\* the part of C20 the code keeps: a change of the connector's own
\* properties, or a scheduled update, recomputes and replaces the whole list
C20_RecomputedOnOwnChange ==
  [][(<<to, route, perpendicularLength>>' # <<to, route, perpendicularLength>>
      \/ (_updateTimer /\ ~_updateTimer')) =>
       _segments' = UpdatePath(_fromEntity', _toEntity', from', to', route',
                               perpendicularLength').segments]_vars

---------------------------------------------------------------------------
(* The axis walk, over the connector's reachable states (Spec).            *)

\* the stored segments the axis walk emitted: all of them, but for the first
\* and the last when there are extensions
WalkPart ==
  IF perpendicularLength > 0 THEN SubSeq(_segments, 2, Len(_segments) - 1)
  ELSE _segments

\* the tokens of a route string that are x, y or z, in the order given
RECURSIVE AxisTokens(_)
AxisTokens(rt) ==
  IF rt = <<>> THEN <<>>
  ELSE IF Head(rt) \in {"x", "y", "z"} THEN <<Head(rt)>> \o AxisTokens(Tail(rt))
  ELSE AxisTokens(Tail(rt))

\* the order C21 states for a route string
ClaimedOrder(rt) ==
  IF rt = <<"auto">> THEN <<"x", "z", "y">>
  ELSE LET given == AxisTokens(rt)
           has(a) == \E i \in 1..Len(given) : given[i] = a
       IN given \o (IF has("x") THEN <<>> ELSE <<"x">>)
                \o (IF has("z") THEN <<>> ELSE <<"z">>)
                \o (IF has("y") THEN <<>> ELSE <<"y">>)

\* where axis a comes first in the order o
FirstAt(o, a) == CHOOSE i \in 1..Len(o) : o[i] = a /\ \A j \in 1..(i - 1) : o[j] # a

\* C21: in axis-walk mode the axes are walked in the order of the route
\* string's x, y and z tokens (other tokens dropped), then the axes of x, z, y
\* not given; 'auto' walks x, z, y.  The walk's segments follow that order.
C21_AxisOrder ==
  (RouteComputed /\ ~IsDirect) =>
    \A i, j \in 1..Len(WalkPart) :
      i < j => FirstAt(ClaimedOrder(route), WalkPart[i].axis)
                 < FirstAt(ClaimedOrder(route), WalkPart[j].axis)

\* route 'y-z' walked over three axes: y, then z, then the completion x
C21_Witness ==
  /\ RouteComputed /\ route = <<"y", "z">> /\ perpendicularLength = 0
  /\ Len(_segments) = 3
  /\ _segments[1].axis = "y" /\ _segments[2].axis = "z" /\ _segments[3].axis = "x"

\* route 'x-q-x' (q dropped) and route 'auto' walked over three axes: x, z, y
C21_DroppedTokenReached ==
  /\ RouteComputed /\ route = <<"x", "q", "x">> /\ perpendicularLength = 0
  /\ Len(_segments) = 3
  /\ _segments[1].axis = "x" /\ _segments[2].axis = "z" /\ _segments[3].axis = "y"
C21_AutoReached ==
  /\ RouteComputed /\ route = <<"auto">> /\ perpendicularLength = 0
  /\ Len(_segments) = 3
  /\ _segments[1].axis = "x" /\ _segments[2].axis = "z" /\ _segments[3].axis = "y"

\* the two faces named by from and to
FromFace == _parseConnection(from).face
ToFace == _parseConnection(to).face

\* an axis route between two faces that have a normal is stored
AxisRouteComputed ==
  RouteComputed /\ ~IsDirect /\ NormalDefined(FromFace) /\ NormalDefined(ToFace)

\* where the axis walk starts and where it is headed
WalkFrom == Extended(FromIso, FACE_NORMALS[FromFace], perpendicularLength)
WalkTo == Extended(ToIso, FACE_NORMALS[ToFace], perpendicularLength)

\* the axes the walk emitted a segment for
EmittedAxes == {WalkPart[i].axis : i \in 1..Len(WalkPart)}

\* each emitted segment starts at the current position (the walk's start, then
\* the end of the segment before, whatever axes were skipped in between) and
\* changes only its own coordinate, to the target value
EmittedShape ==
  /\ \A i \in 1..Len(WalkPart) :
       /\ WalkPart[i].end = [WalkPart[i].start EXCEPT
                               ![WalkPart[i].axis] = WalkTo[WalkPart[i].axis]]
       /\ WalkPart[i].start = IF i = 1 THEN WalkFrom ELSE WalkPart[i - 1].end
  /\ \A i, j \in 1..Len(WalkPart) : WalkPart[i].axis = WalkPart[j].axis => i = j

\* C22 as stated: a segment is emitted for an axis if and only if the
\* difference on that axis exceeds 0.1; it changes only that coordinate, to
\* the target value; an axis within 0.1 emits nothing and moves nothing.
C22_EmitsIffExceeds ==
  AxisRouteComputed =>
    /\ \A a \in RouteAxes : a \in EmittedAxes <=> Abs(WalkTo[a] - WalkFrom[a]) > Eps
    /\ EmittedShape

\* C22, amended: a segment is emitted for an axis if and only if the
\* difference on that axis is at least 0.1 (an axis is skipped only when the
\* difference is below 0.1); the emitted segment changes only that
\* coordinate, to the target value, and a skipped axis moves nothing.
C22_EmitsIffAtLeast ==
  AxisRouteComputed =>
    /\ \A a \in RouteAxes : a \in EmittedAxes <=> Abs(WalkTo[a] - WalkFrom[a]) >= Eps
    /\ EmittedShape

\* one axis at exactly 0.1 (emitted), one at 0.05 (skipped)
C22_Witness ==
  /\ AxisRouteComputed
  /\ \E a \in EmittedAxes : Abs(WalkTo[a] - WalkFrom[a]) = Eps
  /\ \E a \in RouteAxes \ EmittedAxes : Abs(WalkTo[a] - WalkFrom[a]) = 5

\* the outward unit normal of a face, as an axis and a sign
NormalAxis(face) ==
  IF face \in {"top", "bottom"} THEN "z"
  ELSE IF face \in {"front", "back"} THEN "y" ELSE "x"
NormalSign(face) == IF face \in {"top", "front", "right"} THEN 1 ELSE -1

\* p + L * (unit normal of the face)
AlongNormal(p, face, L) ==
  [p EXCEPT ![NormalAxis(face)] = p[NormalAxis(face)] + NormalSign(face) * L]

\* C23: in axis-walk mode with perpendicular length L > 0 the first segment
\* runs from the from point to from + L * normal(from face), the last from
\* to + L * normal(to face) to the to point, each of length L and tagged with
\* the axis of its face normal, and the walk runs between the two extended
\* points; with L = 0 there is no extension segment.
C23_Extensions ==
  AxisRouteComputed =>
    LET L == perpendicularLength
        fromExt == AlongNormal(FromIso, FromFace, L)
        toExt == AlongNormal(ToIso, ToFace, L)
        n == Len(_segments)
    IN /\ L > 0 =>
            /\ n >= 2
            /\ _segments[1] = [start |-> FromIso, end |-> fromExt,
                               length |-> Exact(L), axis |-> NormalAxis(FromFace)]
            /\ _segments[n] = [start |-> toExt, end |-> ToIso,
                               length |-> Exact(L), axis |-> NormalAxis(ToFace)]
       /\ \A i \in 1..Len(WalkPart) :
            /\ WalkPart[i].start = IF i = 1 THEN fromExt ELSE WalkPart[i - 1].end
            /\ WalkPart[i].end[WalkPart[i].axis] = toExt[WalkPart[i].axis]
       /\ L = 0 => \A i, j \in 1..n : _segments[i].axis = _segments[j].axis => i = j

\* a route leaving a front face and entering a bottom face, with extensions of
\* 0.1 and a walk between them
C23_Witness ==
  /\ AxisRouteComputed /\ perpendicularLength = 10
  /\ FromFace = "front" /\ ToFace = "bottom"
  /\ Len(_segments) >= 3
  /\ _segments[1].axis = "y" /\ _segments[Len(_segments)].axis = "z"
  /\ _segments[1].end.y = FromIso.y + 10
  /\ _segments[Len(_segments)].start.z = ToIso.z - 10

\* a three-segment walk without extensions
C23_NoExtensionReached ==
  AxisRouteComputed /\ perpendicularLength = 0 /\ Len(_segments) = 3

---------------------------------------------------------------------------
(* Ground position against height in the rank (SpecZIndex).                *)

\* cornerX + cornerY of a box of the pair, in quarters
CornerSum4(pos) ==
  (2 * pos.x + boxes.size.width) + (2 * pos.y + boxes.size.height)

BothRanked == zIndex.a.done /\ zIndex.b.done

\* C24: ground-plane position dominates height: if cornerX + cornerY of one
\* box is greater than that of the other, its rank is greater whatever the
\* two z values.
C24_GroundDominates ==
  BothRanked =>
    /\ CornerSum4(boxes.a) > CornerSum4(boxes.b) => zIndex.a.value > zIndex.b.value
    /\ CornerSum4(boxes.b) > CornerSum4(boxes.a) => zIndex.b.value > zIndex.a.value

\* the box at (0.5, 0, 0) is ranked 5 and the box at (0, 0, 20) is ranked 20
C24_HeightOutweighs ==
  /\ BothRanked
  /\ boxes.a = [x |-> 1, y |-> 0, z |-> 0] /\ boxes.b = [x |-> 0, y |-> 0, z |-> 40]
  /\ boxes.size = [width |-> 0, height |-> 0]
  /\ zIndex.a.value = 5 /\ zIndex.b.value = 20

---------------------------------------------------------------------------
(* The elapsed time of a frame (SpecParticles).                            *)

\* the time between this frame callback and the one before it, 0 for the
\* first callback after a start
FrameGapMs == IF lastCallback = 0 THEN 0 ELSE now' - lastCallback

\* C25: the elapsed time applied to the particles in a frame is the difference
\* between the frame's timestamp and that of the immediately preceding frame
\* callback (0 on the first frame after a start), also after frames in which
\* the update returned early: surviving and newly emitted particles advance
\* by speed times that difference.
C25_ElapsedIsFrameGap ==
  [][FrameRan =>
       /\ \A k \in Ids(_particles) \cap Ids(_particles') :
            ById(_particles', k).progress
              = ById(_particles, k).progress + Speed * FrameGapMs
       /\ \A k \in Ids(_particles') \ Ids(_particles) :
            ById(_particles', k).progress = Speed * FrameGapMs
       /\ \A k \in Ids(_reverseParticles) \cap Ids(_reverseParticles') :
            ById(_reverseParticles', k).progress
              = ById(_reverseParticles, k).progress - Speed * FrameGapMs
    ]_vars

\* a live particle on a route of positive length, when the last update that
\* did not return early is older than the last frame callback
C25_StaleFrameTimeReached ==
  /\ particleConfig(particles).enabled /\ _totalPathLength.n # 0
  /\ _particles # <<>> /\ frames # {}
  /\ _lastFrameTime # 0 /\ _lastFrameTime < lastCallback

\* the first update of a running loop comes after frames that returned early
C25_LateFirstUpdateReached ==
  /\ particleConfig(particles).enabled /\ _totalPathLength.n # 0 /\ frames # {}
  /\ _lastFrameTime = 0 /\ lastCallback # 0

---------------------------------------------------------------------------
(* The trail effect: _renderTrailParticle on one particle (SpecTrail).     *)

\* the opacity 1 - i * (0.8 / trailCount)
TrailOpacity(i, trailCount) ==
  Sub(Q(1, 1), Mul(Q(i, 1), Div(Q(4, 5), Q(trailCount, 1000))))

\* mutant: the forward trail is sampled ahead of the particle, the reversed
\* one behind it
_renderTrailParticleAhead(particle, isReverse) ==
  LET config == particleConfig(particles)
      size == config.size
      trailCount == config.trailLength
      trailStep == 30000
      dot(i) ==
        LET trailProgress ==
              IF isReverse
                THEN (IF particle.progress - i * trailStep > 0
                        THEN particle.progress - i * trailStep ELSE 0)
                ELSE (IF particle.progress + i * trailStep < One
                        THEN particle.progress + i * trailStep ELSE One)
        IN [progress |-> trailProgress,
            pos |-> _getPositionAtProgress(Q(trailProgress, One)),
            size |-> size * (100 - 15 * i),
            opacity |-> TrailOpacity(i, trailCount)]
  IN [i \in 1..(IF trailCount < 0 THEN 0 ELSE trailCount \div 1000 + 1) |-> dot(i - 1)]

\* _renderTrailParticle(particle, isReverse): the dots of the template, dot i
\* at index i + 1; the size counts hundred-thousandths of a pixel
_renderTrailParticle(particle, isReverse) ==
  LET config == particleConfig(particles)
      size == config.size
      trailCount == config.trailLength
      trailStep == 30000
      dot(i) ==
        LET trailProgress ==
              IF isReverse
                THEN (IF particle.progress + i * trailStep < One
                        THEN particle.progress + i * trailStep ELSE One)
                ELSE (IF particle.progress - i * trailStep > 0
                        THEN particle.progress - i * trailStep ELSE 0)
        IN [progress |-> trailProgress,
            pos |-> _getPositionAtProgress(Q(trailProgress, One)),
            size |-> size * (100 - 15 * i),
            opacity |-> TrailOpacity(i, trailCount)]
  IN [i \in 1..(IF trailCount < 0 THEN 0 ELSE trailCount \div 1000 + 1) |-> dot(i - 1)]

\* 'trail' (size 8, 3 dots behind the head), '4px trail 1trail',
\* '0px trail', 'trail 8trail', 'trail 0trail', and 'glow'
TrailValues ==
  {<<"trail">>, <<"4px", "trail", "1trail">>, <<"0px", "trail">>,
   <<"trail", "8trail">>, <<"trail", "0trail">>, <<"glow">>}

\* the progress of the forward and of the reversed particle
TrailProgresses == {0, 20000, 50000, 500000, 980000, One}

\* a connector with a route of length 10 and one particle in each stream
InitTrail ==
  /\ scene = [a |-> Box(0, 0, 0, 10, 10, 10), b |-> Box(1000, 0, 0, 10, 10, 10)]
  /\ from = <<"a">>
  /\ to = <<"b">>
  /\ route = <<"auto">>
  /\ perpendicularLength = 0
  /\ _fromEntity = "a"
  /\ _toEntity = "b"
  /\ LET res == UpdatePath("a", "b", from, to, route, perpendicularLength)
     IN /\ _segments = res.segments
        /\ _totalPathLength = res.total
        /\ outcome = res.outcome
  /\ particles \in TrailValues
  /\ \E p \in TrailProgresses :
       _particles = << [id |-> 0, progress |-> p, createdAt |-> 1000] >>
  /\ \E p \in TrailProgresses :
       _reverseParticles = << [id |-> 1, progress |-> p, createdAt |-> 1000] >>
  /\ _particleIdCounter = 2
  /\ _lastEmitTime = 1000
  /\ _lastReverseEmitTime = 1000
  /\ _lastFrameTime = 1000
  /\ _animationFrameId = 1
  /\ frames = {1}
  /\ handles = 1
  /\ now = 1000
  /\ connectTimers = 0
  /\ connected = TRUE
  /\ emission = NoEmission
  /\ lastCallback = 0
  /\ trail = NoTrail
  /\ drawing = NoDrawing
  /\ NoEntity
  /\ NoTransform
  /\ NoZ
  /\ NoLookup
  /\ offset = NoOffset
  /\ _updateTimer = FALSE

\* render(): _renderParticle(p, false) on a forward particle, which hands over
\* to _renderTrailParticle for the trail effect
RenderForwardTrail ==
  \E i \in 1..Len(_particles) :
    /\ particleConfig(particles).enabled
    /\ particleConfig(particles).effect = "trail"
    /\ trail' = [done |-> TRUE, isReverse |-> FALSE, id |-> _particles[i].id,
                 dots |-> _renderTrailParticle(_particles[i], FALSE)]
    /\ UNCHANGED notTrail

\* render(): _renderParticle(p, true) on a reversed particle
RenderReverseTrail ==
  \E i \in 1..Len(_reverseParticles) :
    /\ particleConfig(particles).enabled
    /\ particleConfig(particles).effect = "trail"
    /\ trail' = [done |-> TRUE, isReverse |-> TRUE, id |-> _reverseParticles[i].id,
                 dots |-> _renderTrailParticle(_reverseParticles[i], TRUE)]
    /\ UNCHANGED notTrail

NextTrail ==
  \/ RenderForwardTrail
  \/ RenderReverseTrail

SpecTrail == InitTrail /\ [][NextTrail]_vars

\* a call of _renderTrailParticle happens in this step
TrailRendered == trail' # trail

\* the particle the call is made on, as stored before the call
TrailHead ==
  IF trail'.isReverse THEN ById(_reverseParticles, trail'.id).progress
  ELSE ById(_particles, trail'.id).progress

\* the number N of trail points of the configuration
TrailCount == particleConfig(particles).trailLength \div 1000

Max0(k) == IF k > 0 THEN k ELSE 0
Min1(k) == IF k < One THEN k ELSE One

\* dot i of the rendered trail, i counted from 0
Dot(i) == trail'.dots[i + 1]

\* the dots are point 0 to point N, point i sampled at head - 0.03 * i clamped
\* at 0 (forward) or head + 0.03 * i clamped at 1 (reversed)
TrailSampled ==
  /\ Len(trail'.dots) = TrailCount + 1
  /\ \A i \in 0..TrailCount :
       Dot(i).progress = IF trail'.isReverse THEN Min1(TrailHead + 30000 * i)
                         ELSE Max0(TrailHead - 30000 * i)

\* size and opacity of every point are strictly smaller than those of the
\* point before it
TrailTapers ==
  \A i \in 1..TrailCount :
    /\ Dot(i).size < Dot(i - 1).size
    /\ IsFinite(Dot(i).opacity) /\ IsFinite(Dot(i - 1).opacity)
    /\ Sub(Dot(i - 1).opacity, Dot(i).opacity).n > 0

ProgressKept == _particles' = _particles /\ _reverseParticles' = _reverseParticles

C26_ReverseReached ==
  /\ trail.done /\ trail.isReverse /\ particles = <<"trail">>
  /\ Len(trail.dots) = 4
  /\ trail.dots[1].progress = 980000 /\ trail.dots[2].progress = One
  /\ _reverseParticles[1].progress = 980000

\* particles='0px trail': all four points have size 0
C26_ZeroSizeReached ==
  /\ trail.done /\ particles = <<"0px", "trail">> /\ Len(trail.dots) = 4
  /\ \A i \in 1..4 : trail.dots[i].size = 0

---------------------------------------------------------------------------
(* PathCalculator: calculateScreenPath and generatePath (SpecPath).        *)

\* the target's coordinates reach MaxPathStep units
MaxPathStep == 1

\* Math.round of a finite number
RoundQ(a) == (2 * a.n + a.d) \div (2 * a.d)

\* x.toFixed(2), as a number
ToFixed2(a) == Q(Sign(a.n) * ((200 * Abs(a.n) + a.d) \div (2 * a.d)), 100)

\* PathCalculator.parseRoute
parseRoute(rt) ==
  IF rt = <<"auto">> THEN <<"x", "y", "z">>
  ELSE SelectSeq(rt, LAMBDA d : d \in {"x", "y", "z"})

RECURSIVE ScreenWalk(_, _, _, _, _, _)
\* calculateScreenPath: the loop over routeAxes; iso coordinates count
\* hundredths, avgZ is a number
ScreenWalk(routeAxes, currentIso, currentScreen, toIso, sceneOffset, segments) ==
  IF routeAxes = <<>> THEN segments
  ELSE LET axis == Head(routeAxes)
           targetIso == toIso[axis]
           nextIso == [currentIso EXCEPT ![axis] = targetIso]
           dIso == [dx |-> Q(nextIso.x - currentIso.x, 100),
                    dy |-> Q(nextIso.y - currentIso.y, 100),
                    dz |-> Q(nextIso.z - currentIso.z, 100)]
           screenOffset == isoOffsetToScreen(dIso)
           endScreen == [x |-> Add(currentScreen.x, screenOffset.x),
                         y |-> Add(currentScreen.y, screenOffset.y)]
           avgZ == Add(Div(Q(currentIso.x + currentIso.y + nextIso.x + nextIso.y, 100),
                           Q(2, 1)),
                       Div(Q(currentIso.z + nextIso.z, 100), Q(2, 1)))
       IN IF Abs(currentIso[axis] - targetIso) < Eps
            THEN ScreenWalk(Tail(routeAxes), currentIso, currentScreen, toIso,
                            sceneOffset, segments)
            ELSE ScreenWalk(Tail(routeAxes), nextIso, endScreen, toIso, sceneOffset,
                   Append(segments,
                     [screenPoints |->
                        << [x |-> Add(currentScreen.x, sceneOffset.x),
                            y |-> Add(currentScreen.y, sceneOffset.y)],
                           [x |-> Add(endScreen.x, sceneOffset.x),
                            y |-> Add(endScreen.y, sceneOffset.y)] >>,
                      avgZ |-> avgZ]))

\* PathCalculator.calculateScreenPath
calculateScreenPath(fromScreen, fromIso, toIso, rt, sceneOffset) ==
  ScreenWalk(parseRoute(rt), fromIso, [x |-> fromScreen.x, y |-> fromScreen.y],
             toIso, sceneOffset, <<>>)

RECURSIVE SumAvgZ(_)
\* segments.reduce((sum, s) => sum + s.avgZ, 0)
SumAvgZ(segments) ==
  IF segments = <<>> THEN Zero
  ELSE Add(SumAvgZ(SubSeq(segments, 1, Len(segments) - 1)),
           segments[Len(segments)].avgZ)

\* PathCalculator.generatePath: the paths of its result; a path is the list
\* of the points of its M and L commands, each written with toFixed(2)
generatePath(segments, zOffset) ==
  IF Len(segments) = 0 THEN <<>>
  ELSE LET allPoints == <<segments[1].screenPoints[1]>>
                          \o [i \in 1..Len(segments) |-> segments[i].screenPoints[2]]
           pathD == [i \in 1..Len(allPoints) |->
                       [x |-> ToFixed2(allPoints[i].x), y |-> ToFixed2(allPoints[i].y)]]
           avgZ == Div(SumAvgZ(segments), Q(Len(segments), 1))
       IN << [path |-> pathD, zIndex |-> RoundQ(Mul(avgZ, Q(100, 1))) + zOffset] >>

\* the coordinates of the target: 0, 0.05, 0.1 and whole units
PathCoords == {0, 5, 10} \cup {100 * i : i \in 1..MaxPathStep}

PathRoutes == {<<"auto">>, <<"z", "x">>, <<"x", "y", "q">>}

\* a calculator (zOffset 0, or set to 10) and the arguments of a drawing
\* from the origin
InitPath ==
  /\ drawing \in
       {[stage |-> "input", fromIso |-> [x |-> 0, y |-> 0, z |-> 0],
         toIso |-> [x |-> tx, y |-> ty, z |-> tz], route |-> rt, zOffset |-> zo,
         segments |-> <<>>, paths |-> <<>>] :
          tx \in PathCoords, ty \in PathCoords, tz \in PathCoords,
          rt \in PathRoutes, zo \in {0, 10}}
  /\ NoConnector
  /\ NoEntity
  /\ NoTransform
  /\ NoZ
  /\ NoParticles
  /\ NoLookup
  /\ offset = NoOffset
  /\ _updateTimer = FALSE
  /\ trail = NoTrail

\* calculateScreenPath(fromScreen, toScreen, fromIso, toIso, route, sceneOffset),
\* the from point on the screen's origin and no scene offset
CalculateScreenPath ==
  /\ drawing.stage = "input"
  /\ drawing' = [drawing EXCEPT
       !.stage = "segments",
       !.segments = calculateScreenPath([x |-> Zero, y |-> Zero, z |-> Zero],
                                        drawing.fromIso, drawing.toIso,
                                        drawing.route, [x |-> Zero, y |-> Zero])]
  /\ UNCHANGED notDraw

\* generatePath(segments)
GeneratePath ==
  /\ drawing.stage = "segments"
  /\ drawing' = [drawing EXCEPT
       !.stage = "paths",
       !.paths = generatePath(drawing.segments, drawing.zOffset)]
  /\ UNCHANGED notDraw

NextPath ==
  \/ CalculateScreenPath
  \/ GeneratePath

SpecPath == InitPath /\ [][NextPath]_vars

\* generatePath has returned
Drawn == drawing.stage = "paths"

\* C27: each segment of a drawn route gets its own draw-order rank, computed
\* from the coordinate-sum average of its two endpoints, so that segments at
\* different depths receive different ranks.
C27_RankPerSegment ==
  Drawn =>
    /\ Len(drawing.paths) = Len(drawing.segments)
    /\ \A i \in 1..Len(drawing.segments) :
         drawing.paths[i].zIndex
           = RoundQ(Mul(drawing.segments[i].avgZ, Q(100, 1))) + drawing.zOffset
    /\ \A i, j \in 1..Len(drawing.segments) :
         drawing.segments[i].avgZ # drawing.segments[j].avgZ
           => drawing.paths[i].zIndex # drawing.paths[j].zIndex

\* the route from (0,0,0) to (1,1,1) by 'auto': three segments with the
\* averages 0.5, 1.5 and 2.5, drawn as one path of rank 150
C27_OneRankReached ==
  /\ Drawn /\ drawing.route = <<"auto">> /\ drawing.zOffset = 0
  /\ drawing.toIso = [x |-> 100, y |-> 100, z |-> 100]
  /\ Len(drawing.segments) = 3
  /\ drawing.segments[1].avgZ = Q(1, 2)
  /\ drawing.segments[2].avgZ = Q(3, 2)
  /\ drawing.segments[3].avgZ = Q(5, 2)
  /\ Len(drawing.paths) = 1
  /\ drawing.paths[1].zIndex = 150

---------------------------------------------------------------------------
(* The particle loop of a disconnected connector (SpecParticles).          *)

\* C28: while the connector is disconnected no animation-frame callback of it
\* is pending: a disconnect leaves the particle loop stopped until the
\* connector is connected again.
C28_StoppedWhileDisconnected == ~connected => frames = {}

\* the start-up timer of the last connect has fired after the disconnect and
\* the loop runs on the disconnected connector
C28_LoopRunsDisconnected ==
  /\ ~connected /\ connectTimers = 0
  /\ frames # {} /\ _animationFrameId # NoFrame
  /\ particles = <<"8", "2", "0.5">>

\* the firing of the start-up timer on a disconnected connector schedules no
\* frame callback
C28_TimerSchedulesNothing ==
  [][(~connected /\ connectTimers' < connectTimers) => frames' = {}]_vars

---------------------------------------------------------------------------
(* The connector when from or to stops naming an entity (SpecEndpoints).   *)

EndpointScenes ==
  {[a |-> Box(0, 0, 0, 10, 10, 10), b |-> Box(bx, 0, 0, 10, 10, 10)] :
      bx \in {1000, 2000}}

\* 'a', 'a@right', an id no entity has, and the empty string
EndpointFromValues == {<<"a">>, <<"a", "right">>, <<"zz">>, <<"">>}
EndpointToValues == {<<"b">>, <<"b", "left">>, <<"zz">>, <<"">>}

InitEndpoints == ConnInit(EndpointScenes)

NextEndpoints ==
  \/ SetFrom(EndpointFromValues)
  \/ SetTo(EndpointToValues)
  \/ SetRoute({<<"auto">>, <<"direct">>})
  \/ SetPerpendicularLength({0, 10})

SpecEndpoints == InitEndpoints /\ [][NextEndpoints]_vars

\* the attribute names an entity of the scene
Names(str) == _parseConnection(str).entityId \in DOMAIN scene

\* C29: a connector shows a route only between the two entities its from and
\* to attributes currently name: when one of them names no entity of the
\* scene, or is the empty string, no segments and no length are stored.
C29_RouteOnlyBetweenNamed ==
  (~Names(from) \/ ~Names(to)) =>
    _segments = <<>> /\ _totalPathLength = Exact(0)

\* to was changed from 'b' to an id no entity has: the entity is gone, the
\* route to b is still stored
C29_StaleAfterUnknownId ==
  /\ from = <<"a">> /\ to = <<"zz">> /\ _toEntity = NULL
  /\ Len(_segments) = 1 /\ _segments[1].end.x = 1000
  /\ _totalPathLength = Exact(1000)

\* to was changed from 'b' to the empty string: the entity found before is
\* kept and the route to it recomputed
C29_EmptyIdKeepsEntity ==
  /\ from = <<"a">> /\ to = <<"">> /\ _toEntity = "b"
  /\ Len(_segments) = 1 /\ _totalPathLength = Exact(1000)

---------------------------------------------------------------------------
(* An entity placed on the grid: updatePosition and getFaceConnectionPoint *)
(* (SpecGrid).                                                             *)

\* rows and columns reach MaxCell
MaxCell == 2

\* row or col when it is null
NoCell == -1

\* IsoEntity.updatePosition: the translate3d of the element's style
updatePosition(e) ==
  LET onGrid == e.row # NoCell /\ e.col # NoCell
      isoX == IF onGrid THEN e.row * e.gridSize - e.col * e.gridSize ELSE e.x
      isoY == IF onGrid THEN e.row * e.gridSize + e.col * e.gridSize ELSE e.y
  IN [e EXCEPT !.transform = [x |-> isoX, y |-> isoY, z |-> e.z]]

\* an iso-cube of the default size (100 x 100 x 50, grid size 30) with x, y
\* and z given and neither row nor col, after connectedCallback
GridEntity(x, y, z) ==
  updatePosition([x |-> x, y |-> y, z |-> z, width |-> 100, height |-> 100,
                  depth |-> 50, row |-> NoCell, col |-> NoCell, gridSize |-> 30,
                  transform |-> [x |-> 0, y |-> 0, z |-> 0]])

InitGrid ==
  /\ entity \in {GridEntity(0, 0, 0), GridEntity(60, 0, 20)}
  /\ query = NoQuery
  /\ point = NoPoint
  /\ NoConnector
  /\ NoTransform
  /\ NoZ
  /\ NoParticles
  /\ NoLookup
  /\ offset = NoOffset
  /\ _updateTimer = FALSE
  /\ trail = NoTrail
  /\ drawing = NoDrawing

Cells == {NoCell} \cup 0..MaxCell

\* row is set; updated() runs updatePosition
SetRow ==
  \E r \in Cells :
    /\ r # entity.row
    /\ entity' = updatePosition([entity EXCEPT !.row = r])
    /\ UNCHANGED <<query, point, notAnchor>>

\* col is set; updated() runs updatePosition
SetCol ==
  \E c \in Cells :
    /\ c # entity.col
    /\ entity' = updatePosition([entity EXCEPT !.col = c])
    /\ UNCHANGED <<query, point, notAnchor>>

NextGrid ==
  \/ SetRow
  \/ SetCol
  \/ GetFaceConnectionPoint

SpecGrid == InitGrid /\ [][NextGrid]_vars

\* getFaceConnectionPoint is called in this step
AnchorAsked == query' # query \/ point' # point

\* C30: the point returned by getFaceConnectionPoint is the table offset of
\* the face and position added to the position at which the entity is
\* rendered, also when row and col place the entity at
\* ((row - col) * gridSize, (row + col) * gridSize, z).
C30_AnchorOnRenderedEntity ==
  [][AnchorAsked =>
       LET o == FaceOffset(entity, query'.face, query'.position)
           at == entity.transform
       IN point' = [x |-> at.x + o.x, y |-> at.y + o.y, z |-> at.z + o.z]]_vars

\* the cube at row 2, col 1 is rendered at (30, 90, 0) and its top centre is
\* returned as (0, 0, 50)
C30_GridIgnoredReached ==
  /\ entity.row = 2 /\ entity.col = 1 /\ entity.x = 0 /\ entity.y = 0
  /\ entity.transform = [x |-> 30, y |-> 90, z |-> 0]
  /\ query = [face |-> "top", position |-> "mc"]
  /\ point = [x |-> 0, y |-> 0, z |-> 50]

\* without row and col the anchors are offset from the rendered position
C30_OffGridAgrees ==
  [][(AnchorAsked /\ (entity.row = NoCell \/ entity.col = NoCell)) =>
       LET o == FaceOffset(entity, query'.face, query'.position)
           at == entity.transform
       IN point' = [x |-> at.x + o.x, y |-> at.y + o.y, z |-> at.z + o.z]]_vars

============================================================================
